---- MODULE Spec2Model ----
(***************************************************************************)
(* goalsync-backend: the session registry (UserSession rows, written by    *)
(* JWTUtils and the auth / user controllers) and the socket connection     *)
(* tracker (SocketService).                                                *)
(*                                                                         *)
(* Time is a clock of abstract ticks.  A token is the decoded JWT: its     *)
(* payload (userId, email, deviceId, type, jti, exp) and the secret that   *)
(* signed it.  The jti is a 128-bit nonce, modelled by a counter, so every *)
(* minted refresh token is a new string.                                   *)
(* Session rows carry the fields the operations read or write; loginTime,  *)
(* lastActive and the device metadata other than ipAddress are write-only  *)
(* timestamps / constants and are left out; of logoutTime the model keeps  *)
(* whether it is null.                                                     *)
(***************************************************************************)
EXTENDS Integers, FiniteSets, Sequences, TLC

Users == {"u1", "u2"}
DeviceIds == {"d1", "d2"}
Addrs == {"ip1"}
Reqs == {"r1", "r2"}

NoDevice == "-"
NoUser == "-"
NoAddr == "-"

\* bounds of the model
MaxTokens == 3
MaxTime == 1

\* JWT_REFRESH_EXPIRES_IN, '30d', in ticks
refreshTokenExpiry == 1

\* the lifetimes of the other tokens, JWT_EXPIRES_IN '15m', '1h' and '24h':
\* each is one tick of the clock that token is checked against (no
\* operation compares two lifetimes)
accessTokenExpiry == 1
passwordResetExpiry == 1
emailVerificationExpiry == 1

\* the users' e-mail addresses
Emails == {"e1", "e2"}
userEmail == [u1 |-> "e1", u2 |-> "e2"]

\* A user id is held either as the ObjectId of the User document (user._id)
\* or as its hex string (user._id.toString(), a JWT payload's userId). A Map
\* compares keys with SameValueZero: an ObjectId never equals a string
_id(u) == <<"ObjectId", u>>
toString(id) == <<"string", id[2]>>
NoKey == <<"undefined", NoUser>>

\* JSON.stringify of a user id in a JWT payload: the hex string, for both
stringify(id) == id[2]

\* null / undefined where a token string is expected
NoToken == [userId |-> NoUser, email |-> "-", deviceId |-> NoDevice, type |-> "null",
            jti |-> 0, exp |-> 0, key |-> "-"]

\* a well-signed token of this server that is not a refresh token (an access
\* token: other secret, other type marker)
AccessToken == [userId |-> "u1", email |-> "e1", deviceId |-> "d1", type |-> "access",
                jti |-> 0, exp |-> MaxTime + 2, key |-> "fallback-access-secret"]

VARIABLES
  sessions,        \* the UserSession collection: a set of rows
  issued,          \* refresh tokens handed to clients so far
  nextJti,         \* the next token nonce
  now,             \* Date.now()
  req,             \* each in-flight refresh call: where it is, what it holds
  res,             \* the HTTP response sent last, with the request's parameters
  connectedUsers,  \* SocketService.connectedUsers: userId -> set of socket ids
  userSockets,     \* SocketService.userSockets: socket id -> userId
  sockets,         \* socket id -> [userId, state]: the sockets of io.sockets
  status,          \* userId -> number of 'online' / 'offline' broadcastUserStatus calls
  handled,         \* the socket event handled last
  rooms,           \* the adapter's sids: socket id -> the rooms it has joined
  env,             \* process.env: JWT_SECRET, JWT_REFRESH_SECRET
  jwt,             \* a token handed to a verify function, and what came back
  calls,           \* the collaborator calls of the HTTP handler that answered last
  deactivated,     \* the users whose User.isActive is false
  accounts         \* user -> passwordResetToken, passwordResetExpires of the local UserAccount

sessionVars == <<sessions, issued, nextJti, now, req, res>>
socketVars == <<connectedUsers, userSockets, sockets, status, handled, rooms>>
tokenVars == <<env, jwt>>
vars == <<sessions, issued, nextJti, now, req, res,
          connectedUsers, userSockets, sockets, status, handled, rooms,
          env, jwt, calls, deactivated, accounts>>

----------------------------------------------------------------------------
(* JWTUtils: tokens *)

Unset == "unset"

\* the JWTUtils constructor: the secrets, with their fallbacks
accessTokenSecret ==
  IF env.JWT_SECRET = Unset THEN "fallback-access-secret" ELSE env.JWT_SECRET
refreshTokenSecret ==
  IF env.JWT_REFRESH_SECRET = Unset THEN "fallback-refresh-secret" ELSE env.JWT_REFRESH_SECRET

\* jwt.sign(claims, secret, {expiresIn}): the claims as JSON, exp added
sign(claims, secret, exp) ==
  [userId |-> stringify(claims.userId), email |-> claims.email,
   deviceId |-> claims.deviceId, type |-> claims.type, jti |-> claims.jti,
   exp |-> exp, key |-> secret]

\* payload fields overridden by the object literal's later entries
Spread(payload, type, jti) ==
  [userId |-> payload.userId, email |-> payload.email, deviceId |-> payload.deviceId,
   type |-> type, jti |-> jti]

generateAccessTokenPayloadWins(payload, t) ==
  sign(Spread(payload, IF payload.type = "-" THEN "access" ELSE payload.type, 0),
       accessTokenSecret, t + accessTokenExpiry)

\* jwt.sign of {...payload, type: 'access', iat} with expiresIn
generateAccessToken(payload, t) ==
  sign(Spread(payload, "access", 0), accessTokenSecret, t + accessTokenExpiry)

\* jwt.sign of {...payload, type: 'refresh', jti, iat} with expiresIn
generateRefreshToken(payload, jti, t) ==
  sign(Spread(payload, "refresh", jti), refreshTokenSecret, t + refreshTokenExpiry)

\* generateTokenPair(payload)
generateTokenPair(payload, jti, t) ==
  [accessToken |-> generateAccessToken(payload, t),
   refreshToken |-> generateRefreshToken(payload, jti, t)]

\* generatePasswordResetToken(email, userId)
generatePasswordResetToken(email, userId, t) ==
  sign([userId |-> userId, email |-> email, deviceId |-> NoDevice,
        type |-> "password-reset", jti |-> 0],
       accessTokenSecret, t + passwordResetExpiry)

\* generateEmailVerificationToken(email, userId)
generateEmailVerificationToken(email, userId, t) ==
  sign([userId |-> userId, email |-> email, deviceId |-> NoDevice,
        type |-> "email-verification", jti |-> 0],
       accessTokenSecret, t + emailVerificationExpiry)

\* jwt.verify(token, secret, {issuer, audience}): the error it throws, if
\* any. The signature is checked before the expiry
jwtVerify(token, secret, t) ==
  IF token.key # secret
    THEN [name |-> "JsonWebTokenError", message |-> "invalid signature"]
    ELSE IF t >= token.exp
      THEN [name |-> "TokenExpiredError", message |-> "jwt expired"]
      ELSE [name |-> "none", message |-> ""]

\* what a verify function gives its caller: the decoded claims, or the
\* Error it throws (new Error(`${prefix}: ${error.message}`))
Decoded(token) == [ok |-> TRUE, decoded |-> token, name |-> "none", message |-> ""]
Thrown(prefix, message) ==
  [ok |-> FALSE, decoded |-> NoToken, name |-> "Error", message |-> <<prefix, message>>]

\* jwt.verify with `secret`, then the type check, inside try / catch
verifyTyped(token, secret, type, prefix, t) ==
  LET e == jwtVerify(token, secret, t)
  IN IF e.name # "none" THEN Thrown(prefix, e.message)
     ELSE IF token.type # type THEN Thrown(prefix, "Invalid token type")
     ELSE Decoded(token)

verifyAccessTokenAnyType(token, t) ==
  LET e == jwtVerify(token, accessTokenSecret, t)
  IN IF e.name # "none" THEN Thrown("Invalid access token", e.message)
     ELSE Decoded(token)

verifyAccessToken(token, t) ==
  verifyTyped(token, accessTokenSecret, "access", "Invalid access token", t)

verifyPasswordResetTokenAnyType(token, t) ==
  LET e == jwtVerify(token, accessTokenSecret, t)
  IN IF e.name # "none" THEN Thrown("Invalid password reset token", e.message)
     ELSE Decoded(token)

verifyPasswordResetToken(token, t) ==
  verifyTyped(token, accessTokenSecret, "password-reset", "Invalid password reset token", t)

verifyEmailVerificationToken(token, t) ==
  verifyTyped(token, accessTokenSecret, "email-verification",
              "Invalid email verification token", t)

\* the same for the refresh secret
verifyRefreshToken(token, t) ==
  verifyTyped(token, refreshTokenSecret, "refresh", "Invalid refresh token", t)

getTokenExpiry(token) == token.exp

----------------------------------------------------------------------------
(* UserSession: the collection *)

\* mongoose validation run by save(): refreshToken is `required`
validateSync(doc) == doc.refreshToken # NoToken

findSessionIgnoresDevice(S, deviceId, refreshToken, t) ==
  {s \in S : s.refreshToken = refreshToken /\ s.isActive /\ s.refreshTokenExpires > t}

\* UserSession.findOne({deviceId, refreshToken, isActive: true,
\*                      refreshTokenExpires: {$gt: new Date()}})
findSession(S, deviceId, refreshToken, t) ==
  {s \in S : /\ s.deviceId = deviceId
             /\ s.refreshToken = refreshToken
             /\ s.isActive
             /\ s.refreshTokenExpires > t}

\* UserSession.findOne({deviceId, refreshToken, isActive: true})
findForRevoke(S, deviceId, refreshToken) ==
  {s \in S : s.deviceId = deviceId /\ s.refreshToken = refreshToken /\ s.isActive}

renewRefreshTokenKeepsToken(s, newToken, expiresAt) ==
  [s EXCEPT !.refreshTokenExpires = expiresAt]

\* the session's fields after renewRefreshToken set them
renewRefreshToken(s, newToken, expiresAt) ==
  [s EXCEPT !.refreshToken = newToken, !.refreshTokenExpires = expiresAt]

\* the session's fields after logout() set them
logout(s) ==
  [s EXCEPT !.isActive = FALSE, !.logoutTime = "set", !.refreshToken = NoToken]

saveWholeDocument(S, doc, paths) ==
  {IF s.id = doc.id THEN doc ELSE s : s \in S}

\* doc.save(): validates, then $set of the modified paths on the row with
\* the document's _id; the other paths of the row stay as the store has them
save(S, doc, paths) ==
  {IF s.id = doc.id
     THEN [f \in DOMAIN s |-> IF f \in paths THEN doc[f] ELSE s[f]]
     ELSE s : s \in S}

createSessionAlwaysInserts(S, userId, deviceInfo, refreshToken) ==
  S \cup {[id |-> Cardinality(S) + 1, userId |-> userId,
           deviceId |-> deviceInfo.deviceId, ipAddress |-> deviceInfo.ipAddress,
           refreshToken |-> refreshToken,
           refreshTokenExpires |-> getTokenExpiry(refreshToken),
           logoutTime |-> "null", isActive |-> TRUE]}

createSessionKeepsOldToken(S, userId, deviceInfo, refreshToken) ==
  IF \E s \in S : s.deviceId = deviceInfo.deviceId
    THEN LET old == CHOOSE s \in S : s.deviceId = deviceInfo.deviceId
         IN (S \ {old}) \cup
              {[old EXCEPT !.userId = userId, !.ipAddress = deviceInfo.ipAddress,
                           !.isActive = TRUE]}
    ELSE createSessionAlwaysInserts(S, userId, deviceInfo, refreshToken)

createSessionKeepsInactive(S, userId, deviceInfo, refreshToken) ==
  IF \E s \in S : s.deviceId = deviceInfo.deviceId
    THEN LET old == CHOOSE s \in S : s.deviceId = deviceInfo.deviceId
         IN (S \ {old}) \cup
              {[old EXCEPT !.userId = userId, !.ipAddress = deviceInfo.ipAddress,
                           !.refreshToken = refreshToken,
                           !.refreshTokenExpires = getTokenExpiry(refreshToken)]}
    ELSE createSessionAlwaysInserts(S, userId, deviceInfo, refreshToken)

createSessionSingleDevice(S, userId, deviceInfo, refreshToken) ==
  LET others == {IF s.userId = userId /\ s.deviceId # deviceInfo.deviceId /\ s.isActive
                   THEN [s EXCEPT !.isActive = FALSE, !.refreshToken = NoToken]
                   ELSE s : s \in S}
  IN IF \E s \in others : s.deviceId = deviceInfo.deviceId
       THEN {IF s.deviceId = deviceInfo.deviceId
               THEN [s EXCEPT !.userId = userId, !.ipAddress = deviceInfo.ipAddress,
                              !.refreshToken = refreshToken,
                              !.refreshTokenExpires = getTokenExpiry(refreshToken),
                              !.isActive = TRUE]
               ELSE s : s \in others}
       ELSE others \cup {[id |-> Cardinality(S) + 1, userId |-> userId,
                          deviceId |-> deviceInfo.deviceId,
                          ipAddress |-> deviceInfo.ipAddress,
                          refreshToken |-> refreshToken,
                          refreshTokenExpires |-> getTokenExpiry(refreshToken),
                          logoutTime |-> "null", isActive |-> TRUE]}

\* JWTUtils.createSession: findOneAndUpdate({deviceId}, {...}, {upsert: true})
createSession(S, userId, deviceInfo, refreshToken) ==
  IF \E s \in S : s.deviceId = deviceInfo.deviceId
    THEN LET old == CHOOSE s \in S : s.deviceId = deviceInfo.deviceId
         IN (S \ {old}) \cup
              {[old EXCEPT !.userId = userId, !.ipAddress = deviceInfo.ipAddress,
                           !.refreshToken = refreshToken,
                           !.refreshTokenExpires = getTokenExpiry(refreshToken),
                           !.isActive = TRUE]}
    ELSE S \cup {[id |-> Cardinality(S) + 1, userId |-> userId,
                  deviceId |-> deviceInfo.deviceId,
                  ipAddress |-> deviceInfo.ipAddress,
                  refreshToken |-> refreshToken,
                  refreshTokenExpires |-> getTokenExpiry(refreshToken),
                  logoutTime |-> "null", isActive |-> TRUE]}

revokeAllOnlyStampsLogoutTime(S, userId, exceptDeviceId) == S

revokeAllIgnoresExcept(S, userId, exceptDeviceId) ==
  {IF s.userId = userId /\ s.isActive
     THEN [s EXCEPT !.isActive = FALSE, !.logoutTime = "set", !.refreshToken = NoToken]
     ELSE s : s \in S}

\* UserSession.revokeAllUserSessions: updateMany({userId, isActive: true
\* [, deviceId: {$ne: exceptDeviceId}]}, {isActive: false, refreshToken: null})
revokeAllUserSessions(S, userId, exceptDeviceId) ==
  {IF s.userId = userId /\ s.isActive
        /\ (exceptDeviceId # NoDevice => s.deviceId # exceptDeviceId)
     THEN [s EXCEPT !.isActive = FALSE, !.logoutTime = "set", !.refreshToken = NoToken]
     ELSE s : s \in S}

\* JWTUtils.refreshTokens on the store S: the lookup, and renewRefreshToken's
\* save of the new token on the row found
refreshTokens(S, refreshToken, deviceId, newToken, t) ==
  LET found == findSession(S, deviceId, refreshToken, t)
  IN IF ~verifyRefreshToken(refreshToken, t).ok \/ found = {}
       THEN S
       ELSE save(S, renewRefreshToken(CHOOSE s \in found : TRUE, newToken,
                                      getTokenExpiry(newToken)),
                 {"refreshToken", "refreshTokenExpires"})

\* JWTUtils.revokeRefreshToken on the store S: the lookup, and logout()'s save
\* where validation lets it through
revokeRefreshToken(S, refreshToken, deviceId) ==
  LET found == findForRevoke(S, deviceId, refreshToken)
  IN IF found = {}
       THEN S
       ELSE LET doc == logout(CHOOSE s \in found : TRUE)
            IN IF validateSync(doc)
                 THEN save(S, doc, {"isActive", "logoutTime", "refreshToken"})
                 ELSE S

cleanupExpiredSessionsAllActive(S, t) ==
  {IF s.isActive
     THEN [s EXCEPT !.isActive = FALSE, !.logoutTime = "set", !.refreshToken = NoToken]
     ELSE s : s \in S}

\* UserSession.cleanupExpiredSessions: updateMany({refreshTokenExpires:
\* {$lt: new Date()}, isActive: true}, {isActive: false, logoutTime,
\* refreshToken: null})
cleanupExpiredSessions(S, t) ==
  {IF s.refreshTokenExpires < t /\ s.isActive
     THEN [s EXCEPT !.isActive = FALSE, !.logoutTime = "set", !.refreshToken = NoToken]
     ELSE s : s \in S}

findActiveByUserIdIgnoresExpiry(S, userId, t) ==
  {s \in S : s.userId = userId /\ s.isActive}

\* UserSession.findActiveByUserId: find({userId, isActive: true,
\* refreshTokenExpires: {$gt: new Date()}}); the sort by lastActive orders
\* the documents found
findActiveByUserId(S, userId, t) ==
  {s \in S : s.userId = userId /\ s.isActive /\ s.refreshTokenExpires > t}

\* AuthController.extractDeviceInfo: the deviceId is randomBytes(16), whatever
\* the request; ipAddress is the request's
extractDeviceInfo(ip) ==
  {[deviceId |-> d, ipAddress |-> ip] : d \in DeviceIds}

----------------------------------------------------------------------------
(* HTTP responses *)

\* a response, with the deviceId / refreshToken / token of the request's body
\* where a property refers to them
Response(op, st, msg, d, tok) ==
  [op |-> op, status |-> st, message |-> msg, deviceId |-> d, token |-> tok]

refreshCatchLeaksError(error) == [status |-> 401, message |-> error]

\* AuthController.refreshToken's catch block
refreshCatch(error) == [status |-> 401, message |-> "Token refresh failed"]

\* no document
NoSession == [id |-> 0, userId |-> NoUser, deviceId |-> NoDevice, ipAddress |-> NoAddr,
              refreshToken |-> NoToken, refreshTokenExpires |-> 0,
              logoutTime |-> "null", isActive |-> FALSE]

IdleReq == [pc |-> "idle", token |-> NoToken, deviceId |-> NoDevice, session |-> NoSession]

NoResponse == Response("none", 0, "", NoDevice, NoToken)

\* Users, deviceIds and request slots are interchangeable names: a name is
\* taken into use only when the names before it (in the order below) are in
\* use, so of the runs that differ by a renaming one is explored
Order == [u1 |-> 1, u2 |-> 2, d1 |-> 1, d2 |-> 2, r1 |-> 1, r2 |-> 2,
          s1 |-> 1, s2 |-> 2, s3 |-> 3]

FirstUse(x, All, used) == \A y \in All : Order[y] < Order[x] => y \in used

\* the access token of u passes authenticateToken: u has logged in
Authenticated(u) == u \in {t.userId : t \in issued} /\ u \notin deactivated

----------------------------------------------------------------------------
(* SocketService: the tracker as a value [cu, us, st] *)

SocketIds == {"s1", "s2", "s3"}

EmptyMap == [x \in {} |-> 0]

Tracker(cu, us, st) == [cu |-> cu, us |-> us, st |-> st]

\* Map.delete / Map.set on a function whose domain is the set of keys
MapDelete(m, k) == [x \in (DOMAIN m) \ {k} |-> m[x]]
MapSet(m, k, v) == [x \in (DOMAIN m) \cup {k} |-> IF x = k THEN v ELSE m[x]]

\* broadcastUserStatus(userId, status): the call is counted
broadcastUserStatus(st, userId, what) ==
  [st EXCEPT ![userId][what] = @ + 1]

\* handleConnection(socket): track, then broadcast 'online'
handleConnection(T, socketId, userId) ==
  LET cu1 == IF userId \in DOMAIN T.cu THEN T.cu ELSE MapSet(T.cu, userId, {})
      cu2 == [cu1 EXCEPT ![userId] = @ \cup {socketId}]
  IN Tracker(cu2, MapSet(T.us, socketId, userId),
             broadcastUserStatus(T.st, userId, "online"))

handleDisconnectionKeepsUserSocket(T, socketId, userId) ==
  IF userId \in DOMAIN T.cu
    THEN LET left == T.cu[userId] \ {socketId}
         IN IF left = {}
              THEN Tracker(MapDelete(T.cu, userId), T.us,
                           broadcastUserStatus(T.st, userId, "offline"))
              ELSE Tracker([T.cu EXCEPT ![userId] = left], T.us, T.st)
    ELSE T

handleDisconnectionAlwaysBroadcasts(T, socketId, userId) ==
  LET cu1 == IF userId \in DOMAIN T.cu
               THEN IF T.cu[userId] \ {socketId} = {}
                      THEN MapDelete(T.cu, userId)
                      ELSE [T.cu EXCEPT ![userId] = @ \ {socketId}]
               ELSE T.cu
  IN Tracker(cu1, MapDelete(T.us, socketId),
             broadcastUserStatus(T.st, userId, "offline"))

\* handleDisconnection(socket)
handleDisconnection(T, socketId, userId) ==
  LET T1 == IF userId \in DOMAIN T.cu
              THEN LET left == T.cu[userId] \ {socketId}
                   IN IF left = {}
                        THEN Tracker(MapDelete(T.cu, userId), T.us,
                                     broadcastUserStatus(T.st, userId, "offline"))
                        ELSE Tracker([T.cu EXCEPT ![userId] = left], T.us, T.st)
              ELSE T
  IN Tracker(T1.cu, MapDelete(T1.us, socketId), T1.st)

\* socket.emit(event, data): delivered to a socket that is still connected
emit(Sk, socketId, data) ==
  IF Sk[socketId].state = "connected"
    THEN [Sk EXCEPT ![socketId].notices = Append(@, data)]
    ELSE Sk

RECURSIVE forEachDisconnectSeversFirst(_, _, _, _)
forEachDisconnectSeversFirst(T, Sk, ids, reason) ==
  IF ids = {}
    THEN [T |-> T, sockets |-> Sk]
    ELSE LET socketId == CHOOSE x \in ids : TRUE
         IN IF Sk[socketId].state = "connected"
              THEN forEachDisconnectSeversFirst(
                     handleDisconnection(T, socketId, Sk[socketId].userId),
                     emit([Sk EXCEPT ![socketId].state = "closed"], socketId, reason),
                     ids \ {socketId}, reason)
              ELSE forEachDisconnectSeversFirst(T, Sk, ids \ {socketId}, reason)

\* forceDisconnectUser's forEach: for a socket io.sockets still has,
\* socket.emit('force_disconnect', {reason}), then socket.disconnect(true),
\* which runs the socket's 'disconnect' listener, handleDisconnection, before
\* it returns. The result does not depend on the order the Set is walked in
RECURSIVE forEachDisconnect(_, _, _, _)
forEachDisconnect(T, Sk, ids, reason) ==
  IF ids = {}
    THEN [T |-> T, sockets |-> Sk]
    ELSE LET socketId == CHOOSE x \in ids : TRUE
         IN IF Sk[socketId].state = "connected"
              THEN forEachDisconnect(
                     handleDisconnection(T, socketId, Sk[socketId].userId),
                     [emit(Sk, socketId, reason) EXCEPT ![socketId].state = "closed"],
                     ids \ {socketId}, reason)
              ELSE forEachDisconnect(T, Sk, ids \ {socketId}, reason)

\* forceDisconnectUser(userId, reason): this.connectedUsers.get(userId)
forceDisconnectUser(T, Sk, userId, reason) ==
  IF userId \in DOMAIN T.cu
    THEN forEachDisconnect(T, Sk, T.cu[userId], reason)
    ELSE [T |-> T, sockets |-> Sk]

userRoomByReference(userId) == <<"user_", userId>>

\* the room name `user_${userId}`: the template literal turns an ObjectId
\* into its hex string, a string stays what it is
userRoom(userId) == <<"user_", userId[2]>>

\* socket.join(room)
join(R, socketId, room) == [R EXCEPT ![socketId] = @ \cup {room}]

\* what closing a socket does to its rooms before its 'disconnect' listener
\* runs: it leaves them all
leaveAll(R, ids) == [s \in DOMAIN R |-> IF s \in ids THEN {} ELSE R[s]]

\* io.to(room).emit(event, data): to every socket that is in the room
toRoomEmit(Sk, R, room, event) ==
  [s \in DOMAIN Sk |-> IF room \in R[s] THEN emit(Sk, s, event)[s] ELSE Sk[s]]

\* socket.to(room).emit(event, data): to every socket in the room but this one
socketToRoomEmit(Sk, R, socketId, room, event) ==
  [s \in DOMAIN Sk |-> IF room \in R[s] /\ s # socketId THEN emit(Sk, s, event)[s] ELSE Sk[s]]

\* a function that ends without a return statement
Undefined == [type |-> "undefined", value |-> 0]

\* the tracker and the sockets as forceDisconnectUser(userId, reason) leaves them
ForceDisconnected(userId, reason) ==
  LET F == forceDisconnectUser(Tracker(connectedUsers, userSockets, status), sockets,
                               userId, reason)
  IN /\ connectedUsers' = F.T.cu
     /\ userSockets' = F.T.us
     /\ status' = F.T.st
     /\ sockets' = F.sockets
     /\ rooms' = leaveAll(rooms, {s \in SocketIds : F.sockets[s].state = "closed"})

\* the reasons the callers give, and the default
Reasons == {"Password was reset", "Security requirement"}

NoEvent == [op |-> "none", socketId |-> "-", userId |-> NoKey]

----------------------------------------------------------------------------
\* the environment the server may be started in: no secret set (the
\* fallbacks apply), one secret for both kinds, a secret for each
Envs ==
  {[JWT_SECRET |-> Unset, JWT_REFRESH_SECRET |-> Unset],
   [JWT_SECRET |-> "k1", JWT_REFRESH_SECRET |-> "k1"],
   [JWT_SECRET |-> "k1", JWT_REFRESH_SECRET |-> "k2"]}

\* no token minted, none verified
NoClaims == [userId |-> NoKey, email |-> "-", deviceId |-> NoDevice, type |-> "-"]
NoCheck ==
  [minted |-> "none", token |-> NoToken, claims |-> NoClaims, issuedAt |-> 0,
   fn |-> "none", at |-> 0, ok |-> FALSE, decoded |-> NoToken,
   error |-> [name |-> "none", message |-> ""], status |-> 0, code |-> "-"]

\* the server after start-up, whatever its environment and whatever accounts
\* its database holds
\* passwordResetToken and passwordResetExpires of an account that has no
\* reset pending: null, null
NoReset == [passwordResetToken |-> NoToken, passwordResetExpires |-> 0]

Started ==
  /\ sessions = {}
  /\ issued = {}
  /\ nextJti = 1
  /\ now = 0
  /\ req = [r \in Reqs |-> IdleReq]
  /\ res = NoResponse
  /\ connectedUsers = EmptyMap
  /\ userSockets = EmptyMap
  /\ sockets = [s \in SocketIds |-> [userId |-> NoKey, state |-> "new", notices |-> << >>]]
  /\ status = [k \in {toString(_id(u)) : u \in Users} |-> [online |-> 0, offline |-> 0]]
  /\ handled = NoEvent
  /\ rooms = [s \in SocketIds |-> {}]
  /\ jwt = NoCheck
  /\ calls = << >>
  /\ accounts = [u \in Users |-> NoReset]

\* the server after start-up, every account active
Boot ==
  /\ Started
  /\ deactivated = {}

Init ==
  /\ Boot
  /\ env = [JWT_SECRET |-> Unset, JWT_REFRESH_SECRET |-> Unset]

----------------------------------------------------------------------------
(* The session registry's operations *)

\* AuthController.localLogin with the right password: the 401 of an inactive
\* user, else extractDeviceInfo, generateTokenPair, createSession, respond
\* with the tokens
Login(u, ip) ==
  /\ nextJti <= MaxTokens
  /\ FirstUse(u, Users, {t.userId : t \in issued})
  /\ IF u \in deactivated
       THEN /\ res' = Response("login", 401, "Account is inactive", NoDevice, NoToken)
            /\ UNCHANGED <<sessions, issued, nextJti>>
       ELSE /\ \E info \in extractDeviceInfo(ip) :
                 LET tok == generateTokenPair([userId |-> _id(u), email |-> userEmail[u],
                                               deviceId |-> info.deviceId],
                                              nextJti, now).refreshToken
                 IN /\ FirstUse(info.deviceId, DeviceIds, {s.deviceId : s \in sessions})
                    /\ sessions' = createSession(sessions, u, info, tok)
                    /\ issued' = issued \cup {tok}
                    /\ res' = Response("login", 200, "Login successful", NoDevice, NoToken)
            /\ nextJti' = nextJti + 1
  /\ calls' = << >>
  /\ UNCHANGED <<now, req, deactivated, accounts>>
  /\ UNCHANGED socketVars
  /\ UNCHANGED tokenVars

RefreshFindRevokesOnMismatch(r, R, refreshToken, deviceId) ==
  /\ req[r].pc = "idle"
  /\ refreshToken # NoToken /\ deviceId # NoDevice
  /\ findSession(sessions, deviceId, refreshToken, now) = {}
  /\ sessions' = {IF s.deviceId = deviceId THEN logout(s) ELSE s : s \in sessions}
  /\ res' = Response("refreshToken", 401, "Token refresh failed", NoDevice, NoToken)
  /\ calls' = << >>
  /\ UNCHANGED <<req, issued, nextJti, now, deactivated, accounts>>
  /\ UNCHANGED socketVars
  /\ UNCHANGED tokenVars

\* AuthController.refreshToken up to the end of JWTUtils.refreshTokens'
\* findOne: the 400, the verification, the session lookup
RefreshFind(r, R, refreshToken, deviceId) ==
  /\ req[r].pc = "idle"
  /\ FirstUse(r, R, {x \in R : req[x].pc # "idle"})
  /\ IF refreshToken = NoToken \/ deviceId = NoDevice
       THEN /\ res' = Response("refreshToken", 400,
                               "Refresh token and device ID are required", NoDevice, NoToken)
            /\ calls' = << >>
            /\ UNCHANGED req
       ELSE IF ~verifyRefreshToken(refreshToken, now).ok
         THEN LET c == refreshCatch("Token refresh failed: Invalid refresh token")
              IN /\ res' = Response("refreshToken", c.status, c.message, NoDevice, NoToken)
                 /\ calls' = << >>
                 /\ UNCHANGED req
         ELSE LET found == findSession(sessions, deviceId, refreshToken, now)
              IN IF found = {}
                   THEN LET c == refreshCatch("Token refresh failed: Invalid session")
                        IN /\ res' = Response("refreshToken", c.status, c.message, NoDevice, NoToken)
                           /\ calls' = << >>
                           /\ UNCHANGED req
                   ELSE /\ req' = [req EXCEPT ![r] =
                                     [pc |-> "found", token |-> refreshToken,
                                      deviceId |-> deviceId,
                                      session |-> CHOOSE s \in found : TRUE]]
                        /\ UNCHANGED <<res, calls>>
  /\ UNCHANGED <<sessions, issued, nextJti, now, deactivated, accounts>>
  /\ UNCHANGED socketVars
  /\ UNCHANGED tokenVars

\* the rest of JWTUtils.refreshTokens: generateTokenPair, renewRefreshToken's
\* save, and the controller's 200 with the new pair
RefreshSave(r) ==
  /\ req[r].pc = "found"
  /\ nextJti <= MaxTokens
  /\ LET decoded == req[r].token
         tok == generateTokenPair([userId |-> toString(_id(decoded.userId)),
                                   email |-> decoded.email,
                                   deviceId |-> req[r].deviceId], nextJti, now).refreshToken
         doc == renewRefreshToken(req[r].session, tok, getTokenExpiry(tok))
     IN /\ sessions' = save(sessions, doc, {"refreshToken", "refreshTokenExpires"})
        /\ issued' = issued \cup {tok}
        /\ res' = Response("refreshToken", 200, "", req[r].deviceId, req[r].token)
  /\ nextJti' = nextJti + 1
  /\ req' = [req EXCEPT ![r] = IdleReq]
  /\ calls' = << >>
  /\ UNCHANGED <<now, deactivated, accounts>>
  /\ UNCHANGED socketVars
  /\ UNCHANGED tokenVars

\* AuthController.logout: revokeRefreshToken(null, deviceId) when the body has
\* a deviceId, then 200; 500 when the revocation throws
Logout(deviceId) ==
  /\ LET found == IF deviceId = NoDevice THEN {}
                  ELSE findForRevoke(sessions, deviceId, NoToken)
     IN IF found = {}
          THEN /\ res' = Response("logout", 200, "Logged out successfully", deviceId, NoToken)
               /\ UNCHANGED sessions
          ELSE LET doc == logout(CHOOSE s \in found : TRUE)
               IN IF validateSync(doc)
                    THEN /\ sessions' = save(sessions, doc, {"isActive", "logoutTime", "refreshToken"})
                         /\ res' = Response("logout", 200, "Logged out successfully", deviceId, NoToken)
                    ELSE /\ res' = Response("logout", 500, "Logout failed", deviceId, NoToken)
                         /\ UNCHANGED sessions
  /\ calls' = IF deviceId = NoDevice THEN << >> ELSE <<"revokeRefreshToken">>
  /\ UNCHANGED <<issued, nextJti, now, req, deactivated, accounts>>
  /\ UNCHANGED socketVars
  /\ UNCHANGED tokenVars

\* AuthController.logoutAll: revokeAllUserTokens(userId), then 200
LogoutAll(u) ==
  /\ Authenticated(u)
  /\ sessions' = revokeAllUserSessions(sessions, u, NoDevice)
  /\ ForceDisconnected(_id(u), "Logged out from all devices")
  /\ calls' = <<"revokeAllUserTokens", "forceDisconnectUser">>
  /\ res' = Response("logoutAll", 200, "Logged out from all devices successfully", NoDevice, NoToken)
  /\ UNCHANGED <<issued, nextJti, now, req, handled, deactivated, accounts>>
  /\ UNCHANGED tokenVars

\* UserController.revokeSession: findById, the owner check, session.logout()
RevokeSession(u, sessionId) ==
  /\ Authenticated(u)
  /\ LET found == {s \in sessions : s.id = sessionId}
     IN IF found = {} \/ (\E s \in found : s.userId # u)
          THEN /\ res' = Response("revokeSession", 404, "Session not found", NoDevice, NoToken)
               /\ calls' = << >>
               /\ UNCHANGED <<sessions, connectedUsers, userSockets, status, sockets, rooms>>
          ELSE LET doc == logout(CHOOSE s \in found : TRUE)
               IN IF validateSync(doc)
                    THEN /\ sessions' = save(sessions, doc, {"isActive", "logoutTime", "refreshToken"})
                         /\ ForceDisconnected(_id(u), "Session revoked")
                         /\ calls' = <<"logout", "forceDisconnectUser">>
                         /\ res' = Response("revokeSession", 200,
                                            "Session revoked successfully", NoDevice, NoToken)
                    ELSE /\ res' = Response("revokeSession", 500,
                                            "Failed to revoke session", NoDevice, NoToken)
                         /\ calls' = <<"logout">>
                         /\ UNCHANGED <<sessions, connectedUsers, userSockets, status, sockets, rooms>>
  /\ UNCHANGED <<issued, nextJti, now, req, handled, deactivated, accounts>>
  /\ UNCHANGED tokenVars

\* UserAccount.clearPasswordReset: both fields null, then save
clearPasswordReset(a) == NoReset

\* AuthController.resetPassword with a long enough new password:
\* verifyPasswordResetToken, the UserAccount lookup (accountFound: the account
\* holds this token, unexpired), the new hash and clearPasswordReset,
\* revokeAllUserTokens and forceDisconnectUser with decoded.userId, then 200
ResetPassword(token, accountFound) ==
  /\ LET v == verifyPasswordResetToken(token, now)
     IN IF ~v.ok
          THEN /\ res' = Response("resetPassword", 500, "Password reset failed", NoDevice, NoToken)
               /\ calls' = << >>
               /\ UNCHANGED <<sessions, connectedUsers, userSockets, status, sockets, rooms,
                              accounts>>
          ELSE IF ~accountFound
            THEN /\ res' = Response("resetPassword", 400, "Invalid or expired reset token",
                                    NoDevice, NoToken)
                 /\ calls' = << >>
                 /\ UNCHANGED <<sessions, connectedUsers, userSockets, status, sockets, rooms,
                                accounts>>
            ELSE /\ accounts' = [accounts EXCEPT ![v.decoded.userId] = clearPasswordReset(@)]
                 /\ sessions' = revokeAllUserSessions(sessions, v.decoded.userId, NoDevice)
                 /\ ForceDisconnected(toString(_id(v.decoded.userId)), "Password was reset")
                 /\ calls' = <<"revokeAllUserTokens", "forceDisconnectUser">>
                 /\ res' = Response("resetPassword", 200, "Password reset successfully",
                                    NoDevice, token)
  /\ UNCHANGED <<issued, nextJti, now, req, handled, deactivated>>
  /\ UNCHANGED tokenVars

\* UserController.deleteAccount: User.isActive false, revokeAllUserTokens,
\* forceDisconnectUser with req.user._id, then 200
DeleteAccount(u) ==
  /\ Authenticated(u)
  /\ deactivated' = deactivated \cup {u}
  /\ sessions' = revokeAllUserSessions(sessions, u, NoDevice)
  /\ ForceDisconnected(_id(u), "Account deleted")
  /\ calls' = <<"revokeAllUserTokens", "forceDisconnectUser">>
  /\ res' = Response("deleteAccount", 200, "Account deactivated successfully", NoDevice, NoToken)
  /\ UNCHANGED <<issued, nextJti, now, req, handled, accounts>>
  /\ UNCHANGED tokenVars

\* JWTUtils.revokeRefreshToken(refreshToken, deviceId): findOne, logout() of
\* the session found, return true; whatever logout() throws is thrown on
RevokeRefreshToken(refreshToken, deviceId) ==
  /\ LET found == findForRevoke(sessions, deviceId, refreshToken)
     IN IF found = {}
          THEN /\ res' = Response("revokeRefreshToken", 200, "true", NoDevice, NoToken)
               /\ calls' = <<"findOne">>
               /\ UNCHANGED sessions
          ELSE LET doc == logout(CHOOSE s \in found : TRUE)
               IN IF validateSync(doc)
                    THEN /\ sessions' = save(sessions, doc,
                                             {"isActive", "logoutTime", "refreshToken"})
                         /\ res' = Response("revokeRefreshToken", 200, "true",
                                            NoDevice, NoToken)
                         /\ calls' = <<"findOne", "logout">>
                    ELSE /\ res' = Response("revokeRefreshToken", 500, "Token revocation failed",
                                            NoDevice, NoToken)
                         /\ calls' = <<"findOne", "logout">>
                         /\ UNCHANGED sessions
  /\ UNCHANGED <<issued, nextJti, now, req, deactivated, accounts>>
  /\ UNCHANGED socketVars
  /\ UNCHANGED tokenVars

\* JWTUtils.revokeAllUserTokens(userId, exceptDeviceId = null):
\* UserSession.revokeAllUserSessions, return true
RevokeAllUserTokens(userId, exceptDeviceId) ==
  /\ sessions' = revokeAllUserSessions(sessions, userId, exceptDeviceId)
  /\ res' = Response("revokeAllUserTokens", 200, "true", exceptDeviceId, NoToken)
  /\ calls' = <<"revokeAllUserSessions">>
  /\ UNCHANGED <<issued, nextJti, now, req, deactivated, accounts>>
  /\ UNCHANGED socketVars
  /\ UNCHANGED tokenVars

\* JWTUtils.cleanupExpiredTokens(): UserSession.cleanupExpiredSessions,
\* return true
CleanupExpiredTokens ==
  /\ sessions' = cleanupExpiredSessions(sessions, now)
  /\ res' = Response("cleanupExpiredTokens", 200, "true", NoDevice, NoToken)
  /\ calls' = <<"cleanupExpiredSessions">>
  /\ UNCHANGED <<issued, nextJti, now, req, deactivated, accounts>>
  /\ UNCHANGED socketVars
  /\ UNCHANGED tokenVars

\* the clock, for runs that outlast the sessions they create
TickTo(max) ==
  /\ now < max
  /\ now' = now + 1
  /\ UNCHANGED <<sessions, issued, nextJti, req, res, jwt, calls, deactivated, accounts>>
  /\ UNCHANGED socketVars
  /\ UNCHANGED env

\* the clock
Tick ==
  /\ now < MaxTime
  /\ now' = now + 1
  /\ UNCHANGED <<sessions, issued, nextJti, req, res, jwt, calls, deactivated, accounts>>
  /\ UNCHANGED socketVars
  /\ UNCHANGED env

\* io.on('connection'): the handshake's access token verified and named the
\* active user u; the middleware attached socket.userId, handleConnection runs
Connect(socketId, u) ==
  /\ sockets[socketId].state = "new"
  /\ u \notin deactivated
  /\ FirstUse(socketId, SocketIds, {x \in SocketIds : sockets[x].state # "new"})
  /\ LET userId == toString(_id(u))
         T == handleConnection(Tracker(connectedUsers, userSockets, status), socketId, userId)
     IN /\ connectedUsers' = T.cu
        /\ userSockets' = T.us
        /\ status' = T.st
        /\ sockets' = [sockets EXCEPT ![socketId] = [userId |-> userId, state |-> "connected",
                                                        notices |-> << >>]]
        /\ handled' = [op |-> "connection", socketId |-> socketId, userId |-> userId]
        /\ rooms' = join(rooms, socketId, userRoom(userId))
  /\ UNCHANGED sessionVars
  /\ UNCHANGED <<env, jwt, calls, deactivated, accounts>>

\* socket.on('disconnect'): handleDisconnection(socket), for a socket that is
\* connected and, once more, for one whose disconnect was handled already
Disconnect(socketId) ==
  /\ sockets[socketId].state \in {"connected", "closed"}
  /\ LET userId == sockets[socketId].userId
         T == handleDisconnection(Tracker(connectedUsers, userSockets, status), socketId, userId)
     IN /\ connectedUsers' = T.cu
        /\ userSockets' = T.us
        /\ status' = T.st
        /\ sockets' = [sockets EXCEPT ![socketId].state = "closed"]
        /\ rooms' = leaveAll(rooms, {socketId})
        /\ handled' = [op |-> IF sockets[socketId].state = "closed"
                                THEN "disconnect again" ELSE "disconnect",
                       socketId |-> socketId, userId |-> userId]
  /\ UNCHANGED sessionVars
  /\ UNCHANGED <<env, jwt, calls, deactivated, accounts>>

\* forceDisconnectUser(userId, reason) as its callers call it: with the
\* ObjectId req.user._id (logoutAll, revokeSession, deleteAccount) or with the
\* string decoded.userId (resetPassword)
ForceDisconnectUser(userId, reason) ==
  /\ ForceDisconnected(userId, reason)
  /\ handled' = [op |-> "forceDisconnect", socketId |-> "-", userId |-> userId,
                 returned |-> Undefined]
  /\ UNCHANGED sessionVars
  /\ UNCHANGED <<env, jwt, calls, deactivated, accounts>>

\* what a client can send to /refresh-token: a refresh token it was handed,
\* with any deviceId; a body that lacks a field; a token that is no refresh token
RefreshInputs ==
  (issued \X DeviceIds)
    \cup {<<NoToken, "d1">>, <<AccessToken, NoDevice>>, <<AccessToken, "d1">>}

\* the operations, with the refresh calls of the slots R in flight
NextOver(R) ==
  \/ \E u \in Users, ip \in Addrs : Login(u, ip)
  \/ \E r \in R, inp \in RefreshInputs : RefreshFind(r, R, inp[1], inp[2])
  \/ \E r \in R : RefreshSave(r)
  \/ \E d \in DeviceIds \cup {NoDevice} : Logout(d)
  \/ \E u \in Users : LogoutAll(u)
  \/ \E u \in Users, id \in 1..Cardinality(DeviceIds) : RevokeSession(u, id)
  \/ Tick

\* one refresh call at a time, interleaved with every other operation
Next == NextOver({"r1"})

Spec == Init /\ [][Next]_vars

\* two refresh calls in flight
RaceNext == NextOver(Reqs)

RaceSpec == Init /\ [][RaceNext]_vars

\* what a client can send to /reset-password: the reset token mailed to a
\* user, or a token of another kind
ResetInputs ==
  {generatePasswordResetToken(userEmail[u], _id(u), now) : u \in Users} \cup {AccessToken}

\* the sockets that connect while the revocation paths run
RevokeSockets == {"s1", "s2"}

\* the revocation paths next to the sockets they are to close: logins,
\* connections, and every handler that revokes
RevokeNext ==
  \/ \E u \in Users, ip \in Addrs : Login(u, ip)
  \/ \E socketId \in RevokeSockets, u \in Users : Connect(socketId, u)
  \/ \E socketId \in RevokeSockets : Disconnect(socketId)
  \/ \E d \in DeviceIds \cup {NoDevice} : Logout(d)
  \/ \E u \in Users : LogoutAll(u)
  \/ \E u \in Users, id \in 1..Cardinality(DeviceIds) : RevokeSession(u, id)
  \/ \E token \in ResetInputs, accountFound \in BOOLEAN : ResetPassword(token, accountFound)
  \/ \E u \in Users : DeleteAccount(u)

RevokeSpec == Init /\ [][RevokeNext]_vars

\* the session registry called through JWTUtils: sessions are created, grow
\* old, and are revoked one by one or all of a user's at once
RegistryNext ==
  \/ \E u \in Users, ip \in Addrs : Login(u, ip)
  \/ Tick
  \/ \E T \in issued \cup {NoToken}, d \in DeviceIds : RevokeRefreshToken(T, d)
  \/ \E u \in Users, d \in DeviceIds \cup {NoDevice} : RevokeAllUserTokens(u, d)

RegistrySpec == Init /\ [][RegistryNext]_vars

\* how long the runs that see sessions expire last: past the expiry of a
\* session created at the last moment a login can happen
SweepHorizon == MaxTime + refreshTokenExpiry + 1

\* the registry with its sweep called: sessions are created, expire, are
\* revoked, and are swept
SweepNext ==
  \/ \E u \in Users, ip \in Addrs : Login(u, ip)
  \/ TickTo(SweepHorizon)
  \/ \E u \in Users : RevokeAllUserTokens(u, NoDevice)
  \/ CleanupExpiredTokens

SweepSpec == Init /\ [][SweepNext]_vars

\* the server as it is started (httpServer.listen after the routes are
\* mounted): the handlers of the auth routes, and the time that passes. No
\* timer is started and nothing calls cleanupExpiredTokens
ServerNext ==
  \/ \E u \in Users, ip \in Addrs : Login(u, ip)
  \/ \E inp \in RefreshInputs : RefreshFind("r1", {"r1"}, inp[1], inp[2])
  \/ RefreshSave("r1")
  \/ \E d \in DeviceIds \cup {NoDevice} : Logout(d)
  \/ \E u \in Users : LogoutAll(u)
  \/ \E u \in Users, id \in 1..Cardinality(DeviceIds) : RevokeSession(u, id)
  \/ TickTo(SweepHorizon)

\* the server keeps running: time passes, and a request that can be handled
\* eventually is
ServerSpec ==
  /\ Init
  /\ [][ServerNext]_vars
  /\ WF_vars(TickTo(SweepHorizon))
  /\ WF_vars(ServerNext)

\* the tracker on its own: connections, disconnections and forced disconnects
SocketNext ==
  \/ \E socketId \in SocketIds, u \in Users : Connect(socketId, u)
  \/ \E socketId \in SocketIds : Disconnect(socketId)
  \/ \E u \in Users : \E userId \in {_id(u), toString(_id(u))} : \E reason \in Reasons :
       ForceDisconnectUser(userId, reason)

SocketSpec == Init /\ [][SocketNext]_vars

----------------------------------------------------------------------------
(* The token functions and the paths that authenticate a request *)

\* the claims a caller hands to generateTokenPair: userId as the ObjectId
\* user._id (localLogin) or as the string of a decoded token (refreshTokens),
\* with or without a `type` entry of their own
Payloads ==
  {[userId |-> id, email |-> userEmail[id[2]], deviceId |-> "d1", type |-> ty] :
     id \in {_id(u) : u \in Users} \cup {toString(_id(u)) : u \in Users},
     ty \in {"-", "access", "refresh"}}

\* authenticateToken of middleware/auth.js: jwt.verify with
\* process.env.JWT_SECRET, the type check, the user lookup, and the code of
\* each failure
authenticateMiddleware(token, t) ==
  IF env.JWT_SECRET = Unset
    THEN [status |-> 500, code |-> "SERVER_ERROR", message |-> "Server configuration error"]
    ELSE LET e == jwtVerify(token, env.JWT_SECRET, t)
         IN IF e.name = "TokenExpiredError"
              THEN [status |-> 401, code |-> "TOKEN_EXPIRED",
                    message |-> "Access token has expired"]
            ELSE IF e.name = "JsonWebTokenError"
              THEN [status |-> 401, code |-> "INVALID_TOKEN", message |-> "Invalid access token"]
            ELSE IF token.type # "access"
              THEN [status |-> 401, code |-> "INVALID_TOKEN", message |-> "Invalid token type"]
            ELSE IF token.userId \in deactivated
              THEN [status |-> 401, code |-> "ACCOUNT_INACTIVE",
                    message |-> "Account is inactive"]
            ELSE [status |-> 200, code |-> "-", message |-> "next"]

authenticateRouteChecksSession(token, t) ==
  LET v == verifyAccessToken(token, t)
  IN IF ~v.ok
       THEN [status |-> 401, code |-> "-", message |-> "Invalid or expired token"]
     ELSE IF v.decoded.userId \in deactivated
               \/ ~\E s \in sessions : s.deviceId = v.decoded.deviceId /\ s.isActive
       THEN [status |-> 401, code |-> "-", message |-> "Invalid token or user inactive"]
     ELSE [status |-> 200, code |-> "-", message |-> "next"]

\* authenticateToken of the auth, user and calendar routers:
\* jwtUtils.verifyAccessToken, the user lookup, and one answer for whatever
\* was thrown
authenticateRoute(token, t) ==
  LET v == verifyAccessToken(token, t)
  IN IF ~v.ok
       THEN [status |-> 401, code |-> "-", message |-> "Invalid or expired token"]
     ELSE IF v.decoded.userId \in deactivated
       THEN [status |-> 401, code |-> "-", message |-> "Invalid token or user inactive"]
     ELSE [status |-> 200, code |-> "-", message |-> "next"]

authenticateSocketSkipsUserLookup(token, t) ==
  IF token = NoToken
    THEN [status |-> 401, code |-> "-", message |-> "Authentication required"]
  ELSE IF ~verifyAccessToken(token, t).ok
    THEN [status |-> 401, code |-> "-", message |-> "Authentication failed"]
  ELSE [status |-> 200, code |-> "-", message |-> "next"]

\* the handshake middleware of the socket server: verifyAccessToken and the
\* user lookup; next() or next(new Error(...))
authenticateSocket(token, t) ==
  LET v == verifyAccessToken(token, t)
  IN IF token = NoToken
       THEN [status |-> 401, code |-> "-", message |-> "Authentication required"]
     ELSE IF ~v.ok
       THEN [status |-> 401, code |-> "-", message |-> "Authentication failed"]
     ELSE IF v.decoded.userId \in deactivated
       THEN [status |-> 401, code |-> "-", message |-> "User not found or inactive"]
     ELSE [status |-> 200, code |-> "-", message |-> "next"]

HttpPaths == {"middleware/auth.js", "authRoutes", "userRoutes", "calendarRoutes"}
AuthPaths == HttpPaths \cup {"sockets/io.js"}

VerifyFns == {"verifyAccessToken", "verifyRefreshToken", "verifyPasswordResetToken",
              "verifyEmailVerificationToken"}

\* the token a generate function returned, not yet verified
Handed(fn, token, claims) ==
  [NoCheck EXCEPT !.minted = fn, !.token = token, !.claims = claims, !.issuedAt = now]

\* generateTokenPair(payload); one token of the pair goes to the client
GenerateTokenPair(payload, which) ==
  /\ jwt' = Handed(which, generateTokenPair(payload, 1, now)[which], payload)
  /\ UNCHANGED <<sessionVars, socketVars, env, calls, deactivated, accounts>>

\* generatePasswordResetToken(email, userId) of forgotPassword
GeneratePasswordResetToken(u) ==
  /\ jwt' = Handed("passwordResetToken",
                   generatePasswordResetToken(userEmail[u], _id(u), now),
                   [userId |-> _id(u), email |-> userEmail[u], deviceId |-> NoDevice,
                    type |-> "-"])
  /\ UNCHANGED <<sessionVars, socketVars, env, calls, deactivated, accounts>>

\* generateEmailVerificationToken(email, userId)
GenerateEmailVerificationToken(u) ==
  /\ jwt' = Handed("emailVerificationToken",
                   generateEmailVerificationToken(userEmail[u], _id(u), now),
                   [userId |-> _id(u), email |-> userEmail[u], deviceId |-> NoDevice,
                    type |-> "-"])
  /\ UNCHANGED <<sessionVars, socketVars, env, calls, deactivated, accounts>>

\* a client alters the token it holds: the signature no longer matches
Tamper ==
  /\ jwt.token # NoToken
  /\ jwt.token.key # "tampered"
  /\ jwt' = [Handed(jwt.minted, [jwt.token EXCEPT !.key = "tampered"], jwt.claims)
               EXCEPT !.issuedAt = jwt.issuedAt]
  /\ UNCHANGED <<sessionVars, socketVars, env, calls, deactivated, accounts>>

\* the token is handed to one of the verify functions
Verify(fn) ==
  /\ jwt.token # NoToken
  /\ LET v == CASE fn = "verifyAccessToken" -> verifyAccessToken(jwt.token, now)
                [] fn = "verifyRefreshToken" -> verifyRefreshToken(jwt.token, now)
                [] fn = "verifyPasswordResetToken" -> verifyPasswordResetToken(jwt.token, now)
                [] fn = "verifyEmailVerificationToken" ->
                     verifyEmailVerificationToken(jwt.token, now)
     IN jwt' = [jwt EXCEPT !.fn = fn, !.at = now, !.ok = v.ok, !.decoded = v.decoded,
                           !.error = [name |-> v.name, message |-> v.message],
                           !.status = 0, !.code = "-"]
  /\ UNCHANGED <<sessionVars, socketVars, env, calls, deactivated, accounts>>

\* the token is presented as the Bearer token of a request, or at the
\* socket handshake
Authenticate(path) ==
  /\ jwt.token # NoToken
  /\ LET a == CASE path = "middleware/auth.js" -> authenticateMiddleware(jwt.token, now)
                [] path = "sockets/io.js" -> authenticateSocket(jwt.token, now)
                [] OTHER -> authenticateRoute(jwt.token, now)
     IN jwt' = [jwt EXCEPT !.fn = path, !.at = now, !.ok = (a.status = 200),
                           !.decoded = NoToken,
                           !.error = [name |-> "none", message |-> a.message],
                           !.status = a.status, !.code = a.code]
  /\ UNCHANGED <<sessionVars, socketVars, env, calls, deactivated, accounts>>

TokenInit ==
  /\ Boot
  /\ env \in Envs

TokenNext ==
  \/ \E payload \in Payloads, which \in {"accessToken", "refreshToken"} :
       GenerateTokenPair(payload, which)
  \/ \E u \in Users : GeneratePasswordResetToken(u)
  \/ \E u \in Users : GenerateEmailVerificationToken(u)
  \/ Tamper
  \/ Tick
  \/ \E fn \in VerifyFns : Verify(fn)
  \/ \E path \in AuthPaths : Authenticate(path)

TokenSpec == TokenInit /\ [][TokenNext]_vars

----------------------------------------------------------------------------
(* The socket server: handshakes, rooms and events *)

\* the inbox of a socket's client is followed up to this many notices
MaxInbox == 1

\* the events a client sends that setupUserEvents listens to: one of the
\* twelve goal:, task:, calendar:, notification: and session: events, whose
\* listeners differ by the event's name only, and a typing indicator
DomainEvents == {"goal:updated"}
ClientEvents == DomainEvents \cup {"typing:start"}

\* an event the server sends a user (sendNotificationToUser)
ServerEvents == {"notification:new"}

\* every socket an emit may reach has room in the inbox that is followed
InboxRoom == \A s \in SocketIds : Len(sockets[s].notices) < MaxInbox

\* what a client can present at the handshake: nothing, either token of a
\* pair this server signed for a user now or when it started, such an access
\* token altered, a password reset token
HandshakeTokens ==
  LET pair(u, t) == generateTokenPair([userId |-> _id(u), email |-> userEmail[u],
                                       deviceId |-> "d1", type |-> "-"], 1, t)
  IN {NoToken}
       \cup {pair(u, t)[which] : u \in Users, t \in {0, now},
                                 which \in {"accessToken", "refreshToken"}}
       \cup {[pair("u1", now).accessToken EXCEPT !.key = "tampered"],
             generatePasswordResetToken(userEmail["u1"], _id("u1"), now)}

\* a connection attempt: the middleware of io.use, and for a socket it lets
\* through io.on('connection'), handleConnection. A refused attempt leaves no
\* socket behind
Handshake(socketId, token) ==
  /\ sockets[socketId].state = "new"
  /\ FirstUse(socketId, SocketIds, {x \in SocketIds : sockets[x].state # "new"})
  /\ LET a == authenticateSocket(token, now)
     IN IF a.status = 200
          THEN LET userId == toString(_id(verifyAccessToken(token, now).decoded.userId))
                   T == handleConnection(Tracker(connectedUsers, userSockets, status),
                                         socketId, userId)
               IN /\ connectedUsers' = T.cu
                  /\ userSockets' = T.us
                  /\ status' = T.st
                  /\ sockets' = [sockets EXCEPT ![socketId] =
                                   [userId |-> userId, state |-> "connected",
                                    notices |-> << >>]]
                  /\ rooms' = join(rooms, socketId, userRoom(userId))
                  /\ handled' = [op |-> "connection", socketId |-> socketId,
                                 userId |-> userId, token |-> token, error |-> "-"]
          ELSE /\ handled' = [op |-> "refused", socketId |-> socketId, userId |-> NoKey,
                              token |-> token, error |-> a.message]
               /\ UNCHANGED <<connectedUsers, userSockets, sockets, status, rooms>>
  /\ UNCHANGED sessionVars
  /\ UNCHANGED <<env, jwt, calls, deactivated, accounts>>

\* broadcastToUser(userId, event, data): this.io.to(`user_${userId}`).emit
broadcastToUser(Sk, R, userId, event) == toRoomEmit(Sk, R, userRoom(userId), event)

\* a listener of setupUserEvents runs for an event the client of a connected
\* socket sent
ClientEvent(socketId, event) ==
  /\ sockets[socketId].state = "connected"
  /\ InboxRoom
  /\ LET userId == sockets[socketId].userId
     IN sockets' = CASE event \in DomainEvents ->
                          broadcastToUser(sockets, rooms, userId, event)
                     [] event = "typing:start" ->
                          socketToRoomEmit(sockets, rooms, socketId, userRoom(userId), event)
  /\ handled' = [op |-> "event", socketId |-> socketId,
                 userId |-> sockets[socketId].userId, event |-> event]
  /\ UNCHANGED <<connectedUsers, userSockets, status, rooms>>
  /\ UNCHANGED sessionVars
  /\ UNCHANGED <<env, jwt, calls, deactivated, accounts>>

\* the server sends a user an event: sendNotificationToUser(userId, ...),
\* which is broadcastToUser(userId, 'notification:new', notification)
BroadcastToUser(userId, event) ==
  /\ InboxRoom
  /\ sockets' = broadcastToUser(sockets, rooms, userId, event)
  /\ handled' = [op |-> "broadcastToUser", socketId |-> "-", userId |-> userId,
                 event |-> event, returned |-> Undefined]
  /\ UNCHANGED <<connectedUsers, userSockets, status, rooms>>
  /\ UNCHANGED sessionVars
  /\ UNCHANGED <<env, jwt, calls, deactivated, accounts>>

\* the socket server over a database in which every account is active, or
\* one is not
HandshakeInit ==
  /\ Started
  /\ env = [JWT_SECRET |-> Unset, JWT_REFRESH_SECRET |-> Unset]
  /\ deactivated \in {{}, {"u2"}}

\* the door of the socket server: handshakes with whatever a client
\* presents, while tokens expire and sockets disconnect
HandshakeNext ==
  \/ \E socketId \in SocketIds : \E token \in HandshakeTokens : Handshake(socketId, token)
  \/ \E socketId \in SocketIds : Disconnect(socketId)
  \/ Tick

HandshakeSpec == HandshakeInit /\ [][HandshakeNext]_vars

\* the socket server behind its door: connections of authenticated users,
\* the events of connected clients, the events the server sends, forced
\* disconnects and disconnections
IoNext ==
  \/ \E socketId \in SocketIds, u \in Users : Connect(socketId, u)
  \/ \E socketId \in SocketIds : Disconnect(socketId)
  \/ \E socketId \in SocketIds, event \in ClientEvents : ClientEvent(socketId, event)
  \/ \E u \in Users : \E userId \in {_id(u), toString(_id(u))} : \E event \in ServerEvents :
       BroadcastToUser(userId, event)
  \/ \E u \in Users : ForceDisconnectUser(toString(_id(u)), "Security requirement")

IoSpec == Init /\ [][IoNext]_vars



----------------------------------------------------------------------------
(* Properties of the session registry *)

\* a refresh presenting token T for deviceId d would pass the verification
\* and the session lookup of JWTUtils.refreshTokens
AcceptedIn(S, t, T, d) ==
  /\ verifyRefreshToken(T, t).ok
  /\ findSession(S, d, T, t) # {}

Accepted(T, d) == AcceptedIn(sessions, now, T, d)

\* the same, of the next state
AcceptedNext(T, d) == AcceptedIn(sessions', now', T, d)

\* the step in which the refresh call of slot r returns its new pair
Succeeds(r) == req[r].pc = "found" /\ req'[r].pc = "idle"

\* the step of a login, and the token it mints
LoginStep == res'.op = "login" /\ nextJti' = nextJti + 1
Minted == CHOOSE t \in issued' : t \notin issued

\* no step makes a token that was handed out before acceptable again: a
\* pair (T, D) accepted in the next state was accepted in this one (acceptance
\* reads the sessions, the clock and the secrets only)
StaysRejected ==
  \/ sessions' = sessions /\ now' = now /\ env' = env
  \/ \A T \in issued, d \in DeviceIds : AcceptedNext(T, d) => Accepted(T, d)

\* C1: replay rejection.  In the step in which a refresh that presented
\* token T for device D succeeds, T stops being accepted for D, and a token
\* that is not accepted for D is not accepted in the next state either: so
\* from the rotation on, in every later state, a refresh presenting T for D
\* is rejected, whether or not the new pair reached the client.
C1_ReplayRejected ==
  [][/\ \A r \in Reqs :
          Succeeds(r) => ~AcceptedNext(req[r].token, req[r].deviceId)
     /\ StaysRejected]_vars

\* C1 witness: a refresh has just succeeded with a token that still verifies
\* as a JWT and is no longer accepted
C1_Witness ==
  /\ res.op = "refreshToken" /\ res.status = 200
  /\ verifyRefreshToken(res.token, now).ok
  /\ ~Accepted(res.token, res.deviceId)

\* C2: of two refresh calls that present the same valid token for the same
\* deviceId and interleave their lookups and saves, at most one returns a new
\* pair: a call that holds (T, D) past its lookup does not return a pair when
\* the response just sent was already a new pair for (T, D).
C2_AtMostOneSucceeds ==
  [][\A r \in Reqs :
       (/\ req[r].pc = "found"
        /\ res.op = "refreshToken" /\ res.status = 200
        /\ res.token = req[r].token /\ res.deviceId = req[r].deviceId)
         => ~Succeeds(r)]_vars

\* C3: after logoutAll's revokeAllUserTokens(userId) (no excluded device),
\* every refresh token held by a session of that user before the call is
\* rejected on every device, and stays rejected.
C3_RevokeAllRejects ==
  [][/\ \A u \in Users :
          (res'.op = "logoutAll" /\ LogoutAll(u)) =>
            \A s \in sessions : s.userId = u =>
              \A d \in DeviceIds : ~AcceptedNext(s.refreshToken, d)
     /\ StaysRejected]_vars

\* C3 witness: logoutAll has just answered, and a token of the user that
\* still verifies as a JWT belongs to a session it deactivated
C3_Witness ==
  /\ res.op = "logoutAll"
  /\ \E T \in issued, s \in sessions :
       /\ verifyRefreshToken(T, now).ok
       /\ s.userId = T.userId /\ s.deviceId = T.deviceId
       /\ ~s.isActive /\ s.refreshToken = NoToken
       /\ \A d \in DeviceIds : ~Accepted(T, d)

\* C4: when POST /logout with a deviceId has answered 200, the session of
\* that device is inactive and holds no refresh token (so no refresh with its
\* previous token is accepted).
C4_LogoutDeactivates ==
  (res.op = "logout" /\ res.status = 200 /\ res.deviceId # NoDevice) =>
    \A s \in sessions :
      s.deviceId = res.deviceId => ~s.isActive /\ s.refreshToken = NoToken

\* C5: at most one session row per deviceId, and the logins of one user from
\* one device (one origin of the requests) share one row.
C5_OneRowPerDevice ==
  \A s1, s2 \in sessions :
    (\/ s1.deviceId = s2.deviceId
     \/ (s1.userId = s2.userId /\ s1.ipAddress = s2.ipAddress)) => s1 = s2

\* C6: when a login upserts the session of a deviceId that already has a
\* row, no token issued before (the first login's in particular) is accepted
\* for that deviceId any more, and the token this login minted is.
C6_SecondLoginSupersedes ==
  [][LoginStep =>
       LET d == Minted.deviceId
       IN (\E s \in sessions : s.deviceId = d) =>
            /\ \A T \in issued : ~AcceptedNext(T, d)
            /\ AcceptedNext(Minted, d)]_vars

\* C6 witness: a login has just answered, its token is the stored one, and
\* an older token for the same deviceId still verifies as a JWT
C6_Witness ==
  /\ res.op = "login"
  /\ \E s \in sessions, T \in issued :
       /\ s.refreshToken.jti = nextJti - 1
       /\ T.deviceId = s.deviceId /\ T # s.refreshToken
       /\ verifyRefreshToken(T, now).ok
       /\ ~Accepted(T, s.deviceId) /\ Accepted(s.refreshToken, s.deviceId)

\* C7: a login on a deviceId whose row is inactive revives that row: same
\* row id, no new row, isActive, the new token and its expiry, the user of
\* this login; and the new token is accepted for the deviceId.
C7_UpsertRevives ==
  [][LoginStep =>
       LET d == Minted.deviceId
       IN \A old \in sessions :
            (old.deviceId = d /\ ~old.isActive) =>
              /\ Cardinality(sessions') = Cardinality(sessions)
              /\ \E s \in sessions' :
                   /\ s.id = old.id /\ s.deviceId = d
                   /\ s.isActive
                   /\ s.refreshToken = Minted
                   /\ s.refreshTokenExpires = Minted.exp
                   /\ s.userId = Minted.userId
              /\ AcceptedNext(Minted, d)]_vars

\* C7 witness: a login has just answered and its token is held by an active
\* row that was logged out before (logoutTime is set) and belonged to
\* another user
C7_Witness ==
  /\ res.op = "login"
  /\ \E s \in sessions, T \in issued :
       /\ s.refreshToken.jti = nextJti - 1
       /\ s.isActive /\ s.logoutTime = "set"
       /\ T.deviceId = s.deviceId /\ T.userId # s.userId
       /\ Accepted(s.refreshToken, s.deviceId)

\* the four conditions of the claim, spelled out on the stored rows
FourConditions(T, d) ==
  \E s \in sessions :
    /\ s.deviceId = d
    /\ s.refreshToken = T
    /\ s.isActive
    /\ s.refreshTokenExpires > now

\* the steps a lookup of /refresh-token can be: the call is answered with an
\* error, or it moves past the lookup
LookupStep ==
  \/ res'.op = "refreshToken" /\ res'.status # 200 /\ req' = req /\ now' = now
  \/ \E r \in Reqs : req[r].pc = "idle" /\ req'[r].pc = "found"

\* C8: a refresh call with both fields passes the lookup exactly when a row
\* matches the deviceId and the token and is active and unexpired; only a call
\* that passed the lookup returns a pair; and every other call gets the one
\* 401 response, whichever condition failed, and changes no row.
C8_RefreshConditions ==
  [][/\ LookupStep =>
          \A r \in Reqs, T \in issued \cup {AccessToken}, d \in DeviceIds :
            \/ IF FourConditions(T, d)
                 THEN req'[r].pc = "found"
                 ELSE /\ req'[r].pc = "idle"
                      /\ res' = Response("refreshToken", 401, "Token refresh failed",
                                         NoDevice, NoToken)
                      /\ sessions' = sessions
            \/ ~RefreshFind(r, Reqs, T, d)
     /\ (res'.op = "refreshToken" /\ res'.status = 200 /\ issued' # issued) =>
          \E r \in Reqs : Succeeds(r)
     /\ \A r \in Reqs :
          (req[r].pc = "idle" /\ req'[r].pc = "found") =>
            FourConditions(req'[r].token, req'[r].deviceId)]_vars

\* C8 witness: a refresh was just rejected with the 401 while an active,
\* unexpired session exists
C8_Witness ==
  /\ res.op = "refreshToken" /\ res.status = 401
  /\ \E s \in sessions : s.isActive /\ s.refreshTokenExpires > now

----------------------------------------------------------------------------
(* The connection tracker *)

\* the sockets of user key k whose 'disconnect' has not been handled
Live(k) == {c \in SocketIds : sockets[c].state = "connected" /\ sockets[c].userId = k}

\* C9: in every reachable state the two maps agree: connection c is in
\* connectedUsers[u] exactly when userSockets[c] = u, so every tracked
\* connection belongs to exactly one user, and no user key maps to an empty set
C9_MapsConsistent ==
  /\ \A k \in DOMAIN connectedUsers : connectedUsers[k] # {}
  /\ \A k \in DOMAIN connectedUsers : \A c \in connectedUsers[k] :
       c \in DOMAIN userSockets /\ userSockets[c] = k
  /\ \A c \in DOMAIN userSockets :
       /\ userSockets[c] \in DOMAIN connectedUsers
       /\ c \in connectedUsers[userSockets[c]]
  /\ \A k1 \in DOMAIN connectedUsers : \A k2 \in DOMAIN connectedUsers :
       k1 # k2 => connectedUsers[k1] \cap connectedUsers[k2] = {}

\* a user with two connections lost one of them and is still tracked, next to
\* a second tracked user
C9_Witness ==
  /\ handled.op = "disconnect"
  /\ handled.userId \in DOMAIN connectedUsers
  /\ handled.socketId \notin DOMAIN userSockets
  /\ Cardinality(DOMAIN connectedUsers) = 2
  /\ Cardinality(DOMAIN userSockets) = 2

\* C10: the 'offline' broadcast for a user fires in exactly the steps that
\* take the user's live connections from some to none, and once in such a
\* step; a step that leaves the user a live connection leaves the user
\* tracked and fires nothing, and so does a disconnect handled again
C10_OfflineOnce ==
  [][\A k \in DOMAIN status :
       /\ status'[k].offline =
            status[k].offline + (IF Live(k) # {} /\ Live(k)' = {} THEN 1 ELSE 0)
       /\ Live(k)' # {} => k \in DOMAIN connectedUsers'
       /\ handled'.op = "disconnect again" => status'[k] = status[k]]_vars

\* a user's two connections were disconnected one after the other, the
\* second one twice: one 'offline' broadcast
C10_Witness ==
  \E k \in DOMAIN status :
    /\ Cardinality({c \in SocketIds : sockets[c].state = "closed" /\ sockets[c].userId = k}) = 2
    /\ Live(k) = {}
    /\ k \notin DOMAIN connectedUsers
    /\ status[k].online = 2
    /\ status[k].offline = 1
    /\ handled.op = "disconnect again"
    /\ handled.userId = k

\* C11: the 'online' broadcast for a user fires only in the steps that take
\* the user's live connections from none to some: a connection of a user who
\* is already online fires none
C11_OnlineOnTransition ==
  [][\A k \in DOMAIN status :
       status'[k].online =
         status[k].online + (IF Live(k) = {} /\ Live(k)' # {} THEN 1 ELSE 0)]_vars

\* C12: forceDisconnectUser(u, reason), called with the user id as the
\* tracker holds it, leaves u without a live connection and out of both maps;
\* every socket that was live for u got exactly one more notice, carrying
\* reason, while it was still connected, and is closed; the sockets and the
\* tracker entries of the other users are as they were
C12_ForceDisconnect ==
  [][\A u \in Users, reason \in Reasons :
       LET k == toString(_id(u))
       IN ForceDisconnectUser(k, reason) =>
            /\ Live(k)' = {}
            /\ k \notin DOMAIN connectedUsers'
            /\ \A c \in DOMAIN userSockets' : userSockets'[c] # k
            /\ \A c \in SocketIds :
                 sockets'[c] =
                   IF c \in Live(k)
                     THEN [sockets[c] EXCEPT !.state = "closed",
                                             !.notices = Append(@, reason)]
                     ELSE sockets[c]
            /\ \A j \in DOMAIN connectedUsers \ {k} :
                 j \in DOMAIN connectedUsers' /\ connectedUsers'[j] = connectedUsers[j]
            /\ \A c \in DOMAIN userSockets :
                 userSockets[c] # k =>
                   c \in DOMAIN userSockets' /\ userSockets'[c] = userSockets[c]]_vars

\* a user's two live sockets were force-disconnected, each with its one
\* notice, while another user's socket stays connected and tracked
C12_Witness ==
  /\ handled.op = "forceDisconnect"
  /\ Cardinality({c \in SocketIds : /\ sockets[c].userId = handled.userId
                                    /\ sockets[c].state = "closed"
                                    /\ Len(sockets[c].notices) = 1}) = 2
  /\ handled.userId \notin DOMAIN connectedUsers
  /\ \E c \in DOMAIN userSockets :
       sockets[c].state = "connected" /\ sockets[c].notices = << >>

----------------------------------------------------------------------------
(* The revocation paths *)

\* the step is a revocation handler answering 200 for user u
RevokedFor(u) ==
  /\ res'.status = 200
  /\ \/ LogoutAll(u)
     \/ DeleteAccount(u)
     \/ \E id \in 1..Cardinality(DeviceIds) : RevokeSession(u, id)
     \/ \E token \in ResetInputs : token.userId = u /\ ResetPassword(token, TRUE)

\* C13: when logout-all, password reset, session-revoke-by-id or account
\* deletion has answered 200 for a user, that user has no live connection:
\* the id the handler passed to forceDisconnectUser is the key the user's
\* sockets were registered under
C13_RevocationClosesSockets ==
  [][\A u \in Users : RevokedFor(u) => Live(toString(_id(u)))' = {}]_vars

\* the registry calls that deactivate sessions
RegistryUpdates == {"revokeRefreshToken", "revokeAllUserTokens", "logout"}

\* C14: every revocation path that answered 200 (a logout that named its
\* device, logout-all, password reset, session-revoke-by-id, account
\* deactivation) called the session registry's update and, after it,
\* forceDisconnectUser
C14_RevokeThenDisconnect ==
  (/\ res.op \in {"logout", "logoutAll", "resetPassword", "revokeSession", "deleteAccount"}
   /\ res.status = 200
   /\ res.op = "logout" => res.deviceId # NoDevice)
    => \E i \in DOMAIN calls, j \in DOMAIN calls :
         i < j /\ calls[i] \in RegistryUpdates /\ calls[j] = "forceDisconnectUser"

----------------------------------------------------------------------------
(* The kinds of token *)

\* the verification recorded in jwt found the signature good and the token
\* unexpired
SignedAndFresh == jwt.token.key = accessTokenSecret /\ jwt.at < jwt.token.exp

\* C15: a token minted as a refresh token is rejected by verifyAccessToken
\* and by every path that authenticates a request or a socket handshake; a
\* token minted as an access token is rejected by verifyRefreshToken
C15_TypeSeparation ==
  /\ (jwt.minted = "refreshToken" /\ jwt.fn \in {"verifyAccessToken"} \cup AuthPaths)
       => ~jwt.ok
  /\ (jwt.minted = "accessToken" /\ jwt.fn = "verifyRefreshToken") => ~jwt.ok

\* a refresh token signed with the key that also signs access tokens, not
\* expired, was turned down by verifyAccessToken for its type alone
C15_Witness ==
  /\ jwt.minted = "refreshToken"
  /\ jwt.fn = "verifyAccessToken"
  /\ accessTokenSecret = refreshTokenSecret
  /\ SignedAndFresh
  /\ ~jwt.ok
  /\ jwt.error.message = <<"Invalid access token", "Invalid token type">>

\* C16: password-reset and email-verification tokens are single-purpose:
\* neither passes verifyAccessToken or verifyRefreshToken, an access token
\* passes neither verifyPasswordResetToken nor verifyEmailVerificationToken,
\* and neither single-purpose kind passes the other's verify function
C16_SinglePurpose ==
  /\ (/\ jwt.minted \in {"passwordResetToken", "emailVerificationToken"}
      /\ jwt.fn \in {"verifyAccessToken", "verifyRefreshToken"}) => ~jwt.ok
  /\ (/\ jwt.minted = "accessToken"
      /\ jwt.fn \in {"verifyPasswordResetToken", "verifyEmailVerificationToken"}) => ~jwt.ok
  /\ (jwt.minted = "passwordResetToken" /\ jwt.fn = "verifyEmailVerificationToken") => ~jwt.ok
  /\ (jwt.minted = "emailVerificationToken" /\ jwt.fn = "verifyPasswordResetToken") => ~jwt.ok

\* an unexpired access token, signed with the key the reset tokens are
\* signed with, was turned down by verifyPasswordResetToken for its type
C16_Witness ==
  /\ jwt.minted = "accessToken"
  /\ jwt.fn = "verifyPasswordResetToken"
  /\ SignedAndFresh
  /\ ~jwt.ok
  /\ jwt.error.message = <<"Invalid password reset token", "Invalid token type">>

\* the decoded claims carry the type and the user id and email of the
\* payload; the user id comes back as JSON carried it, the id's string
RoundTrip(type) ==
  /\ jwt.ok
  /\ jwt.decoded.type = type
  /\ jwt.decoded.userId = stringify(jwt.claims.userId)
  /\ jwt.decoded.email = jwt.claims.email

\* C17: verifying, before its expiry, the access token of the pair
\* generateTokenPair issued for a payload returns claims with type access
\* and the payload's user id and email; verifying the pair's refresh token
\* returns type refresh and the same user id and email
C17_RoundTrip ==
  /\ (/\ jwt.minted = "accessToken" /\ jwt.fn = "verifyAccessToken"
      /\ jwt.token.key # "tampered" /\ jwt.at < jwt.token.exp) => RoundTrip("access")
  /\ (/\ jwt.minted = "refreshToken" /\ jwt.fn = "verifyRefreshToken"
      /\ jwt.token.key # "tampered" /\ jwt.at < jwt.token.exp) => RoundTrip("refresh")

\* the access token of a pair issued for a payload that names the user by
\* ObjectId and has a type entry of its own was verified
C17_Witness ==
  /\ jwt.minted = "accessToken"
  /\ jwt.fn = "verifyAccessToken"
  /\ jwt.claims.userId = _id("u2")
  /\ jwt.claims.type = "refresh"
  /\ jwt.ok
  /\ jwt.decoded.userId = "u2"

\* jwt.verify would report the token recorded in jwt as expired
Expired == jwtVerify(jwt.token, accessTokenSecret, jwt.at).name = "TokenExpiredError"

\* C18: every HTTP authentication path that turns a token down answers with
\* the code TOKEN_EXPIRED when the token is expired and INVALID_TOKEN when it
\* is badly signed or of the wrong type
C18_FailureCodes ==
  (jwt.fn \in HttpPaths /\ jwt.status = 401)
    => jwt.code = IF Expired THEN "TOKEN_EXPIRED" ELSE "INVALID_TOKEN"

----------------------------------------------------------------------------
(* The registry's revocations *)

\* C19: revokeRefreshToken(refreshToken, deviceId) returns true; on an active
\* session whose deviceId and stored token match it leaves that session
\* inactive and without its token, and on any other input it leaves every
\* session as it was
C19_RevokeOne ==
  [][\A T \in issued \cup {NoToken}, d \in DeviceIds :
       RevokeRefreshToken(T, d) =>
         /\ res'.status = 200
         /\ \A s \in sessions :
              IF s \in findForRevoke(sessions, d, T)
                THEN \E x \in sessions' :
                       x.id = s.id /\ ~x.isActive /\ x.refreshToken = NoToken
                ELSE s \in sessions'
         /\ Cardinality(sessions') = Cardinality(sessions)]_vars

\* C20: revokeAllUserTokens(userId, exceptDeviceId) leaves inactive and
\* without token every session of userId that was active, but the one on
\* exceptDeviceId; that session and the sessions of every other user stay as
\* they were, and what the excluded device could refresh with it still can
C20_RevokeAllExcept ==
  [][\A u \in Users, e \in DeviceIds \cup {NoDevice} :
       (res'.op = "revokeAllUserTokens" /\ res'.deviceId = e /\ RevokeAllUserTokens(u, e)) =>
         /\ \A s \in sessions :
              IF s.userId = u /\ s.isActive /\ s.deviceId # e
                THEN \E x \in sessions' :
                       x.id = s.id /\ ~x.isActive /\ x.refreshToken = NoToken
                ELSE (s.userId # u \/ s.deviceId = e) => s \in sessions'
         /\ Cardinality(sessions') = Cardinality(sessions)
         /\ \A T \in issued : Accepted(T, e) => AcceptedNext(T, e)]_vars

\* a user had active sessions on two devices; revokeAllUserTokens has been
\* called for that user with one device excepted: that device's session is
\* active and its token refreshes, the other session is inactive without token
C20_Witness ==
  /\ res.op = "revokeAllUserTokens"
  /\ res.deviceId \in DeviceIds
  /\ \E kept \in sessions, gone \in sessions :
       /\ kept.deviceId = res.deviceId /\ kept.isActive
       /\ Accepted(kept.refreshToken, res.deviceId)
       /\ gone.userId = kept.userId /\ gone.deviceId # res.deviceId
       /\ ~gone.isActive /\ gone.refreshToken = NoToken

----------------------------------------------------------------------------
(* Operations on different devices *)

\* what the claims read of a session record
Binding(s) ==
  [deviceId |-> s.deviceId, userId |-> s.userId, refreshToken |-> s.refreshToken,
   refreshTokenExpires |-> s.refreshTokenExpires, isActive |-> s.isActive]

\* a token no step has minted, for an operation that has not run yet
FreshToken(u, d) ==
  generateRefreshToken([userId |-> _id(u), email |-> userEmail[u], deviceId |-> d],
                       MaxTokens + 1, now')

\* the operations a client can run on device d: a login of either user, a
\* refresh and a revocation, each with the token the device holds or with none
DeviceOps(S, d) ==
  {[kind |-> k, deviceId |-> d, userId |-> u, token |-> T] :
     k \in {"login", "refresh", "revoke"}, u \in Users,
     T \in {s.refreshToken : s \in {x \in S : x.deviceId = d}} \cup {NoToken}}

\* the store after the operation
Apply(S, op) ==
  CASE op.kind = "login" ->
         createSession(S, op.userId, [deviceId |-> op.deviceId, ipAddress |-> "ip1"],
                       FreshToken(op.userId, op.deviceId))
    [] op.kind = "refresh" ->
         refreshTokens(S, op.token, op.deviceId, FreshToken(op.userId, op.deviceId), now')
    [] op.kind = "revoke" -> revokeRefreshToken(S, op.token, op.deviceId)

\* the step is a login or the save of a refresh, and the device it is on
DeviceStep == LoginStep \/ \E r \in Reqs : Succeeds(r)
StepDevice ==
  IF LoginStep THEN Minted.deviceId
  ELSE req[CHOOSE r \in Reqs : Succeeds(r)].deviceId

\* C21: a login or refresh on device D1 leaves the record of every other
\* device as it was, and so does a revocation, which changes no other row; and
\* an operation on another device D2 run after the step ends in the state it
\* would give run before it: its own rows as it makes them from the store
\* before the step, D1's rows as the step left them
C21_DevicesIndependent ==
  [][/\ (sessions' # sessions /\ res'.op # "logoutAll") => DeviceStep
     /\ (sessions' # sessions /\ DeviceStep) =>
          /\ \A s \in sessions \cup sessions' :
               s.deviceId # StepDevice => s \in sessions /\ s \in sessions'
          /\ \A d \in DeviceIds \ {StepDevice} : \A op \in DeviceOps(sessions, d) :
               {Binding(s) : s \in Apply(sessions', op)} =
                 {Binding(s) : s \in {x \in Apply(sessions, op) : x.deviceId # StepDevice}}
                   \cup {Binding(s) : s \in {x \in sessions' : x.deviceId = StepDevice}}]_vars

\* a login has just answered on one device while the same user's session on
\* another device is active with its token
C21_Witness ==
  /\ res.op = "login" /\ res.status = 200
  /\ \E s1 \in sessions, s2 \in sessions :
       /\ s1.userId = s2.userId /\ s1.deviceId # s2.deviceId
       /\ s1.refreshToken.jti = nextJti - 1
       /\ s2.isActive /\ Accepted(s2.refreshToken, s2.deviceId)

----------------------------------------------------------------------------
(* The expiry sweep *)

\* C22: cleanupExpiredTokens leaves inactive, without token and with its
\* logout time stamped every active session whose refresh expiry has passed,
\* and leaves every other session (unexpired, or inactive already) as it was
C22_SweepDeactivatesExpired ==
  [][CleanupExpiredTokens =>
       /\ \A s \in sessions :
            IF s.isActive /\ s.refreshTokenExpires < now
              THEN \E x \in sessions' :
                     /\ x.id = s.id /\ ~x.isActive /\ x.refreshToken = NoToken
                     /\ x.logoutTime = "set"
              ELSE s \in sessions'
       /\ Cardinality(sessions') = Cardinality(sessions)]_vars

\* the sweep has just run: it deactivated an expired session, next to a
\* session that is active and unexpired
C22_Witness ==
  /\ res.op = "cleanupExpiredTokens"
  /\ \E gone \in sessions, kept \in sessions :
       /\ ~gone.isActive /\ gone.refreshToken = NoToken /\ gone.logoutTime = "set"
       /\ gone.refreshTokenExpires < now
       /\ kept.isActive /\ kept.refreshTokenExpires > now /\ kept.refreshToken # NoToken


\* what a caller can observe of the sessions S at time t: the pairs a refresh
\* would accept, and the sessions listed for each user
Refreshable(S, t) ==
  {<<d, T>> \in DeviceIds \X (issued \cup {NoToken}) : AcceptedIn(S, t, T, d)}
Listed(S, t) == [u \in Users |-> findActiveByUserId(S, u, t)]

\* C24: the sweep changes nothing a caller can observe: the pairs a refresh
\* accepts and the sessions findActiveByUserId lists are the same after a
\* sweep as before it, and a session at or past its expiry is neither
\* refreshable nor listed, swept or not
C24_SweepAdvisory ==
  /\ [](\A s \in sessions :
          s.refreshTokenExpires <= now =>
            /\ <<s.deviceId, s.refreshToken>> \notin Refreshable(sessions, now)
            /\ s \notin Listed(sessions, now)[s.userId])
  /\ [][CleanupExpiredTokens =>
          /\ Refreshable(sessions', now') = Refreshable(sessions, now)
          /\ Listed(sessions', now') = Listed(sessions, now)]_vars

\* a sweep has just deactivated an expired session of a user who has another
\* session that is still listed and refreshable
C24_Witness ==
  /\ calls = <<"cleanupExpiredSessions">>
  /\ \E u \in Users :
       /\ \E s \in sessions :
            /\ s.userId = u /\ s.refreshTokenExpires < now
            /\ ~s.isActive /\ s.logoutTime = "set"
       /\ \E s \in Listed(sessions, now)[u] :
            <<s.deviceId, s.refreshToken>> \in Refreshable(sessions, now)


\* the session of device d is active although its refresh expiry has passed
ExpiredActive(d) ==
  \E s \in sessions : s.deviceId = d /\ s.isActive /\ s.refreshTokenExpires < now

\* C23: while the server keeps running, a session whose refresh expiry has
\* passed does not stay active for ever: the periodic sweep deactivates it
\* (or a new login on its device replaces it)
C23_ExpiredEventuallyDeactivated ==
  \A d \in DeviceIds : ExpiredActive(d) ~> ~ExpiredActive(d)

----------------------------------------------------------------------------
(* Properties of the socket server *)

\* the connection attempt with `token` passes the handshake as user key k: the
\* token verifies as an access token of this server, unexpired, and names an
\* account that exists and is active, whose id as a string is k
VerifiedFor(token, k) ==
  /\ token # NoToken
  /\ token.type = "access"
  /\ jwtVerify(token, accessTokenSecret, now).name = "none"
  /\ token.userId \in Users \ deactivated
  /\ k = toString(_id(token.userId))

\* C25: a connection attempt with no token, with a token that is invalid,
\* expired or not an access token, or with the token of an inactive account
\* is refused and leaves the tracker and the rooms as they were; a socket
\* enters the tracker only in the step of a handshake whose token verified
\* for the user it is recorded under
C25_HandshakeGate ==
  [][/\ handled'.op = "refused" =>
          /\ connectedUsers' = connectedUsers /\ userSockets' = userSockets
          /\ rooms' = rooms /\ sockets' = sockets
     /\ \A c \in SocketIds :
          (c \in DOMAIN userSockets' /\ c \notin DOMAIN userSockets) =>
            /\ handled'.op = "connection" /\ handled'.socketId = c
            /\ VerifiedFor(handled'.token, userSockets'[c])
            /\ c \in connectedUsers'[userSockets'[c]]
     /\ \A k \in DOMAIN connectedUsers' : \A c \in connectedUsers'[k] :
          (k \notin DOMAIN connectedUsers \/ c \notin connectedUsers[k]) =>
            /\ handled'.op = "connection" /\ handled'.socketId = c
            /\ VerifiedFor(handled'.token, k)
     /\ (handled' # handled /\ handled'.op \in {"connection", "refused"}) =>
          (handled'.op = "connection" <=>
             \E k \in {toString(_id(u)) : u \in Users} : VerifiedFor(handled'.token, k))]_vars

\* while a socket is tracked, an attempt presenting an expired access token
\* of an active user has just been refused
C25_Witness ==
  /\ handled.op = "refused"
  /\ handled.token.type = "access"
  /\ handled.token.key = accessTokenSecret
  /\ handled.token.exp <= now
  /\ handled.token.userId \notin deactivated
  /\ handled.error = "Authentication failed"
  /\ DOMAIN userSockets # {}


\* the connections the tracker holds for the user key k, and the sockets in
\* the delivery room of that user
TrackedFor(k) == IF k \in DOMAIN connectedUsers THEN connectedUsers[k] ELSE {}
InRoom(k) == {c \in SocketIds : userRoom(k) \in rooms[c]}

\* C26: broadcastToUser(u, event, data) delivers the event to exactly the
\* connections that are live for u, and changes nothing when there is none;
\* the sockets in the user's room are always the tracker's set for that user
C26_DeliversToLive ==
  /\ [](\A u \in Users : InRoom(toString(_id(u))) = TrackedFor(toString(_id(u))))
  /\ [][(handled'.op = "broadcastToUser" /\ <<handled, sockets>>' # <<handled, sockets>>) =>
          \A c \in SocketIds :
            sockets'[c] =
              IF c \in TrackedFor(<<"string", handled'.userId[2]>>)
                THEN [sockets[c] EXCEPT !.notices = Append(@, handled'.event)]
                ELSE sockets[c]]_vars

\* the server sent an event to a user it named by ObjectId: both connections
\* of the user received it, the connection of the other user did not
C26_Witness ==
  /\ handled.op = "broadcastToUser"
  /\ handled.userId \in {_id(u) : u \in Users}
  /\ \E c1, c2, c3 \in SocketIds :
       /\ c1 # c2
       /\ TrackedFor(<<"string", handled.userId[2]>>) = {c1, c2}
       /\ sockets[c1].notices = <<handled.event>>
       /\ sockets[c2].notices = <<handled.event>>
       /\ sockets[c3].state = "connected" /\ sockets[c3].notices = << >>


\* C27: a goal:, task:, calendar:, notification: or session: event that
\* connection c of user u sends is passed on to the other live connections of
\* u only: each of them receives it, c itself does not, and no connection of
\* another user does
C27_RebroadcastToOthers ==
  [][(handled'.op = "event" /\ handled'.event \in DomainEvents
        /\ <<handled, sockets>>' # <<handled, sockets>>) =>
       \A c \in SocketIds :
         sockets'[c] =
           IF c \in TrackedFor(handled'.userId) \ {handled'.socketId}
             THEN [sockets[c] EXCEPT !.notices = Append(@, handled'.event)]
             ELSE sockets[c]]_vars


\* C28: forceDisconnectUser and broadcastToUser hand their caller a number,
\* the count of the connections the delivery failed for
C28_ReturnsFailureCount ==
  handled.op \in {"forceDisconnect", "broadcastToUser"} =>
    /\ handled.returned.type = "number"
    /\ handled.returned.value \in 0..Cardinality(SocketIds)


----------------------------------------------------------------------------
(* Properties of the tokens issued *)

\* C29: generateTokenPair hands out a token only when both signing secrets
\* are set: no access or refresh token is signed with a fallback secret
C29_NoFallbackSecret ==
  jwt.minted \in {"accessToken", "refreshToken"} =>
    /\ env.JWT_SECRET # Unset
    /\ env.JWT_REFRESH_SECRET # Unset
    /\ jwt.token.key \notin {"fallback-access-secret", "fallback-refresh-secret"}

----------------------------------------------------------------------------
(* The places that issue a token pair, and the claims their access tokens carry *)

\* the callers of generateTokenPair
IssueSites == {"localSignup", "localLogin", "googleCodeExchange",
               "googleCallback", "outlookCallback", "refreshTokens"}

\* the payload each caller builds: the controller's three handlers name the
\* onboarding flag, the OAuth callbacks of the router and refreshTokens (from
\* the decoded refresh token) do not
payloadAt(site, u, deviceId, onboardingCompleted) ==
  IF site \in {"localSignup", "localLogin", "googleCodeExchange"}
    THEN [userId |-> _id(u), email |-> userEmail[u],
          onboardingCompleted |-> onboardingCompleted, deviceId |-> deviceId]
  ELSE IF site \in {"googleCallback", "outlookCallback"}
    THEN [userId |-> _id(u), email |-> userEmail[u], deviceId |-> deviceId]
  ELSE [userId |-> toString(_id(u)), email |-> userEmail[u], deviceId |-> deviceId]

\* the claims generateAccessToken signs: {...payload, type: 'access'} (and
\* iat); every entry of the payload, and the type marker
accessTokenClaims(payload) ==
  [k \in DOMAIN payload \cup {"type"} |-> IF k = "type" THEN "access" ELSE payload[k]]

\* a caller issues a pair for user u on a device; the access token goes to
\* the client
IssueTokenPair(site, u, deviceId, onboardingCompleted) ==
  /\ LET payload == payloadAt(site, u, deviceId, onboardingCompleted)
         token == generateTokenPair([userId |-> payload.userId, email |-> payload.email,
                                     deviceId |-> payload.deviceId, type |-> "-"],
                                    1, now).accessToken
     IN jwt' = [site |-> site, carries |-> accessTokenClaims(payload)]
                 @@ Handed("accessToken", token, payload)
  /\ UNCHANGED <<sessionVars, socketVars, env, calls, deactivated, accounts>>

IssueNext ==
  \/ \E site \in IssueSites, u \in Users, deviceId \in DeviceIds, flag \in BOOLEAN :
       IssueTokenPair(site, u, deviceId, flag)
  \/ Tick

IssueSpec == TokenInit /\ [][IssueNext]_vars

\* C30: every access token issued, at signup, login, an OAuth callback or a
\* refresh, carries the user id, the email, the onboarding flag, the device
\* id and the type marker access
C30_AccessTokenClaims ==
  jwt.minted = "accessToken" =>
    /\ {"userId", "email", "onboardingCompleted", "deviceId", "type"} \subseteq DOMAIN jwt.carries
    /\ jwt.carries.type = "access"


----------------------------------------------------------------------------
(* Access tokens after a revocation *)

\* the access token of the pair whose refresh token is T: generateTokenPair
\* signs both from one payload at one time
accessTokenOf(T) ==
  generateAccessToken([userId |-> _id(T.userId), email |-> T.email, deviceId |-> T.deviceId,
                       type |-> "-"], T.exp - refreshTokenExpiry)

\* the answer of each place that authenticates an access token: the unified
\* middleware, the routers' own authenticateToken, the socket handshake
Answers(token, t) ==
  {authenticateMiddleware(token, t).status, authenticateRoute(token, t).status,
   authenticateSocket(token, t).status}

\* the server runs with both secrets set: it ends at start-up otherwise
RunningInit ==
  /\ Boot
  /\ env \in {e \in Envs : e.JWT_SECRET # Unset /\ e.JWT_REFRESH_SECRET # Unset}

\* logins, every handler that revokes sessions of a user who stays active,
\* and the clock
AccessNext ==
  \/ \E u \in Users, ip \in Addrs : Login(u, ip)
  \/ \E d \in DeviceIds \cup {NoDevice} : Logout(d)
  \/ \E u \in Users : LogoutAll(u)
  \/ \E u \in Users, id \in 1..Cardinality(DeviceIds) : RevokeSession(u, id)
  \/ \E token \in ResetInputs, accountFound \in BOOLEAN : ResetPassword(token, accountFound)
  \/ Tick

AccessSpec == RunningInit /\ [][AccessNext]_vars

----------------------------------------------------------------------------
(* Refreshes that race with a revocation *)

\* C32: in every state, whatever ran between a refresh's lookup and its
\* save, a session that is inactive holds no refresh token
C32_InactiveHoldsNoToken ==
  \A s \in sessions : ~s.isActive => s.refreshToken = NoToken


\* the stored row of the session the refresh call of slot r looked up
Row(r) == CHOOSE s \in sessions : s.id = req[r].session.id
RowNext(r) == CHOOSE s \in sessions' : s.id = req[r].session.id

\* the step is a revocation of the session that the refresh call of slot r
\* has looked up and not yet saved: logout-all of its user, or the logout of
\* its device answered 200
RevokesInFlight(r) ==
  /\ req[r].pc = "found"
  /\ req'[r] = req[r]
  /\ \/ res'.op = "logoutAll" /\ LogoutAll(Row(r).userId)
     \/ /\ res'.op = "logout" /\ res'.status = 200 /\ res'.deviceId = req[r].deviceId
        /\ Logout(req[r].deviceId)

\* C33: a revocation that runs between a refresh's lookup and its save leaves
\* the session inactive, and after the save that follows the session is still
\* inactive and neither the token the refresh presented nor the token it
\* returned is accepted
C33_RevocationWinsRace ==
  /\ [][\A r \in Reqs : RevokesInFlight(r) => ~RowNext(r).isActive]_vars
  /\ [][\A r \in Reqs :
          (Succeeds(r) /\ ~Row(r).isActive) =>
            /\ ~RowNext(r).isActive
            /\ ~AcceptedNext(req[r].token, req[r].deviceId)
            /\ ~AcceptedNext(RowNext(r).refreshToken, req[r].deviceId)]_vars


\* C34: a refresh that is rejected (400 or 401, whatever the cause) changes
\* no session record: every row is the same after the call as before it
C34_RejectedRefreshChangesNothing ==
  [][(res'.op = "refreshToken" /\ res'.status # 200 /\ req' = req /\ now' = now) =>
       sessions' = sessions]_vars

\* a refresh was rejected while an active, unexpired session exists for the
\* device it could have named
C34_Witness ==
  /\ res.op = "refreshToken" /\ res.status = 401
  /\ \E s \in sessions : s.isActive /\ s.refreshTokenExpires > now /\ s.refreshToken # NoToken
  /\ \E s \in sessions : ~s.isActive

-----------------------------------------------------------------------------
(* C35: the binding of a session to its user and device *)

\* a login whose randomBytes(16) deviceId is one that no session row has: a
\* 128-bit random id is not drawn twice
LoginNewDevice(u, ip) ==
  /\ Login(u, ip)
  /\ res'.status = 200 => {s.deviceId : s \in sessions'} # {s.deviceId : s \in sessions}

\* logins on new devices, one refresh call at a time, the revocations and
\* the clock
BindingNext ==
  \/ \E u \in Users, ip \in Addrs : LoginNewDevice(u, ip)
  \/ \E inp \in RefreshInputs : RefreshFind("r1", {"r1"}, inp[1], inp[2])
  \/ RefreshSave("r1")
  \/ \E d \in DeviceIds \cup {NoDevice} : Logout(d)
  \/ \E u \in Users : LogoutAll(u)
  \/ Tick

BindingSpec == Init /\ [][BindingNext]_vars

\* the token is one issued for this user on this device
IssuedFor(T, userId, deviceId) == T.userId = userId /\ T.deviceId = deviceId

\* C35: the refresh token that an active session stores is one issued for
\* the session's own user and device; and the step in which a refresh call
\* returns leaves every other row as it was, leaves the user, the device, the
\* address, the logout time and the active flag of its own row as they were,
\* and stores and returns a new token issued for that same user and device
C35_SessionBinding ==
  /\ [](\A s \in sessions : s.isActive => IssuedFor(s.refreshToken, s.userId, s.deviceId))
  /\ [][\A r \in Reqs : Succeeds(r) =>
          /\ \A s \in sessions : s.id # Row(r).id => s \in sessions'
          /\ Cardinality(sessions') = Cardinality(sessions)
          /\ RowNext(r) = [Row(r) EXCEPT !.refreshToken = RowNext(r).refreshToken,
                                        !.refreshTokenExpires = RowNext(r).refreshTokenExpires]
          /\ RowNext(r).refreshToken \in issued' \ issued
          /\ IssuedFor(RowNext(r).refreshToken, Row(r).userId, Row(r).deviceId)]_vars

\* a refresh call has returned for a session that a logout-all deactivated
\* after the lookup, next to another user's active session, and the row is
\* still inactive and still that user's
C35_Witness ==
  /\ res.op = "refreshToken" /\ res.status = 200
  /\ \E s \in sessions : /\ s.deviceId = res.deviceId
                         /\ ~s.isActive
                         /\ s.refreshToken # NoToken
                         /\ IssuedFor(s.refreshToken, s.userId, s.deviceId)
  /\ \E s \in sessions : s.isActive /\ s.deviceId # res.deviceId

-----------------------------------------------------------------------------
(* C37: the password-reset token *)

\* AuthController.forgotPassword with an e-mail address: the local account
\* and its user are looked up; for an active user the token of
\* generatePasswordResetToken (a function of the address, the user id and
\* the second of the clock) and its expiry are saved on the account, then
\* the mail is sent (sent: the mail service did not throw)
ForgotPassword(u, sent) ==
  /\ IF u \in deactivated
       THEN /\ res' = Response("forgotPassword", 200, "If an account with this email exists",
                               NoDevice, NoToken)
            /\ UNCHANGED accounts
       ELSE /\ accounts' = [accounts EXCEPT ![u] =
                              [passwordResetToken |->
                                 generatePasswordResetToken(userEmail[u], _id(u), now),
                               passwordResetExpires |-> now + passwordResetExpiry]]
            /\ res' = IF sent
                        THEN Response("forgotPassword", 200,
                                      "If an account with this email exists", NoDevice, NoToken)
                        ELSE Response("forgotPassword", 500,
                                      "Failed to send password reset email", NoDevice, NoToken)
  /\ calls' = << >>
  /\ UNCHANGED <<sessions, issued, nextJti, now, req, deactivated>>
  /\ UNCHANGED socketVars
  /\ UNCHANGED tokenVars

\* resetPassword's UserAccount.findOne({userId: decoded.userId,
\* passwordResetToken: token, passwordResetExpires: {$gt: new Date()}})
findAccount(A, token, t) ==
  {u \in Users : /\ u = token.userId
                 /\ A[u].passwordResetToken = token
                 /\ A[u].passwordResetExpires > t}

\* resetPassword with the account looked up in the store
ResetPasswordStored(token) == ResetPassword(token, findAccount(accounts, token, now) # {})

\* the reset tokens that have been mailed by now, and a token of another kind
MailedTokens ==
  {generatePasswordResetToken(userEmail[u], _id(u), t) : u \in Users, t \in 0..now}
    \cup {AccessToken}

\* logins, refreshes, forgotten and reset passwords, while the clock runs
ResetNext ==
  \/ \E u \in Users, ip \in Addrs : LoginNewDevice(u, ip)
  \/ \E inp \in RefreshInputs : RefreshFind("r1", {"r1"}, inp[1], inp[2])
  \/ RefreshSave("r1")
  \/ \E u \in Users, sent \in BOOLEAN : ForgotPassword(u, sent)
  \/ \E token \in MailedTokens : ResetPasswordStored(token)
  \/ Tick

ResetSpec == Init /\ [][ResetNext]_vars /\ WF_vars(ResetNext)

\* the reset token mailed to u at time t
mailed(u, t) == generatePasswordResetToken(userEmail[u], _id(u), t)

\* a reset with R has just succeeded
ResetDone(R) == res.op = "resetPassword" /\ res.status = 200 /\ res.token = R

\* a reset with R would succeed now
Usable(R) == verifyPasswordResetToken(R, now).ok /\ findAccount(accounts, R, now) # {}

\* every session of the user is inactive and no refresh token handed out for
\* the user is accepted
AllRevoked(u) ==
  /\ \A s \in sessions : s.userId = u => ~s.isActive
  /\ \A T \in issued, d \in DeviceIds : T.userId = u => ~Accepted(T, d)

\* C37: once a reset with the token R has succeeded, R is of no use in that
\* state or in any later one (every attempt with it is answered 400 or 500
\* and changes nothing), and in the state after the reset every session of
\* R's user is inactive and no refresh token handed out before is accepted
C37_ResetTokenUsedOnce ==
  \A u \in Users, t \in 0..MaxTime :
    /\ [](ResetDone(mailed(u, t)) => [](~Usable(mailed(u, t))))
    /\ [](ResetDone(mailed(u, t)) => AllRevoked(u))

\* the part of C37 about the sessions
C37_ResetRevokesSessions ==
  \A u \in Users, t \in 0..MaxTime : ResetDone(mailed(u, t)) => AllRevoked(u)

-----------------------------------------------------------------------------
(* C36: DELETE /sessions/:sessionId *)

\* the step is user u's revoke-by-id of the session id
RevokeStep(u, id) == res'.op = "revokeSession" /\ RevokeSession(u, id)

\* the session row with this id is u's own
Own(u, id) == \E s \in sessions : s.id = id /\ s.userId = u

\* C36: a revoke-by-id of user u on a session id that no row has or that is
\* another user's row is answered 404, changes no session and closes no
\* socket; on one of u's own rows it leaves that row inactive and every other
\* row as it was, so that u's other active sessions stay refreshable
C36_RevokeById ==
  [][\A u \in Users, id \in 1..Cardinality(DeviceIds) : RevokeStep(u, id) =>
       IF ~Own(u, id)
         THEN /\ res'.status = 404
              /\ sessions' = sessions
              /\ sockets' = sockets /\ connectedUsers' = connectedUsers
              /\ userSockets' = userSockets
         ELSE /\ \A s \in sessions' : s.id = id => ~s.isActive
              /\ \A s \in sessions : s.id # id => s \in sessions']_vars

\* the part of C36 about ids that are not the caller's
C36_ForeignIdRejected ==
  [][\A u \in Users, id \in 1..Cardinality(DeviceIds) : RevokeStep(u, id) /\ ~Own(u, id) =>
       /\ res'.status = 404
       /\ sessions' = sessions
       /\ sockets' = sockets /\ connectedUsers' = connectedUsers
       /\ userSockets' = userSockets]_vars

-----------------------------------------------------------------------------
(* C38: the deactivated account *)

\* the callback of /google/callback and /outlook/callback for a user who has
\* such an account: the strategy's verify function finds the UserAccount and
\* its User, and the callback signs a pair for req.user, creates the session
\* and redirects with the tokens; neither reads User.isActive
OAuthCallback(u, ip) ==
  /\ nextJti <= MaxTokens
  /\ FirstUse(u, Users, {t.userId : t \in issued})
  /\ \E info \in extractDeviceInfo(ip) :
       LET tok == generateTokenPair([userId |-> _id(u), email |-> userEmail[u],
                                     deviceId |-> info.deviceId],
                                    nextJti, now).refreshToken
       IN /\ FirstUse(info.deviceId, DeviceIds, {s.deviceId : s \in sessions})
          /\ {s.deviceId : s \in sessions} # {s.deviceId : s \in createSession(sessions, u, info, tok)}
          /\ sessions' = createSession(sessions, u, info, tok)
          /\ issued' = issued \cup {tok}
          /\ res' = Response("oauthCallback", 302, "/auth/callback", NoDevice, NoToken)
  /\ nextJti' = nextJti + 1
  /\ calls' = << >>
  /\ UNCHANGED <<now, req, deactivated, accounts>>
  /\ UNCHANGED socketVars
  /\ UNCHANGED tokenVars

\* the routes a user comes in by and the account's deletion, while the
\* clock runs
DeleteNext ==
  \/ \E u \in Users, ip \in Addrs : LoginNewDevice(u, ip)
  \/ \E u \in Users, ip \in Addrs : OAuthCallback(u, ip)
  \/ \E inp \in RefreshInputs : RefreshFind("r1", {"r1"}, inp[1], inp[2])
  \/ RefreshSave("r1")
  \/ \E u \in Users : DeleteAccount(u)
  \/ Tick

DeleteSpec == RunningInit /\ [][DeleteNext]_vars

\* none of the credentials handed out for u works: no refresh token with any
\* deviceId is accepted, and no access token is let in by an API route or by
\* the socket handshake
LockedOut(u) ==
  \A T \in issued : T.userId = u =>
    /\ \A d \in DeviceIds : ~Accepted(T, d)
    /\ 200 \notin Answers(accessTokenOf(T), now)

\* C38: from the deletion of u's account on, in every state, the user is
\* kept as inactive and none of u's credentials works, and every local login
\* of u is answered 401
C38_DeletedAccountLockedOut ==
  /\ [](\A u \in deactivated : u \in Users /\ LockedOut(u))
  /\ [][\A u \in deactivated, ip \in Addrs :
          res'.op = "login" /\ Login(u, ip) => res'.status = 401 /\ sessions' = sessions]_vars

\* the part of C38 that does not depend on how the user comes back: no
\* access token of a deactivated user is let in, and local login is refused
C38_AccessRefused ==
  /\ [](\A u \in deactivated : \A T \in issued :
          T.userId = u => 200 \notin Answers(accessTokenOf(T), now))
  /\ [][\A u \in deactivated, ip \in Addrs :
          res'.op = "login" /\ Login(u, ip) => res'.status = 401 /\ sessions' = sessions]_vars

====
